---- MODULE Spec2Model ----
(***************************************************************************)
(* Oracle registry, slashing state machine and oracle selector of          *)
(* packages/x402-verifier/multi_oracle.py (class MultiOracleSystem and the *)
(* POST /consensus handler that slashes outliers).                         *)
(*                                                                         *)
(* Stake is a Python float holding SOL.  It is modelled as an exact        *)
(* decimal: an integer number of thousandths of a SOL.  Every stake the    *)
(* model registers is a multiple of 20 units, so that the 10% and 50%      *)
(* cuts of slash_oracle are exact.                                         *)
(***************************************************************************)
EXTENDS Integers, Sequences, FiniteSets, TLC

\* ------------------------------------------------------------------ bounds
\* slash_oracle is not called on an oracle that has this many slashes.
MaxSlashes == 5
\* Largest count passed to select_oracles.
MaxCount == 4

\* ------------------------------------------------------- program constants
UnitsPerSol == 10 * 100

\* MultiOracleSystem.MIN_STAKE = 10.0
MIN_STAKE == 10 * UnitsPerSol

\* OracleStatus
ACTIVE == "active"
SUSPENDED == "suspended"
BANNED == "banned"

\* ------------------------------------------------------------------ inputs
\* Public keys offered to the registry.
Keys == {"k1", "k2", "k3"}

\* Stakes offered to register_oracle: MIN_STAKE - epsilon, MIN_STAKE, 15 SOL.
StakeInputs == {MIN_STAKE - 1, MIN_STAKE, 15 * UnitsPerSol}

\* Seeds given to select_oracles: 32 bytes of 'x', of 'a', of 'b'.
Seeds == {"x", "a", "b"}

None == "None"

VARIABLES
    oracles,   \* self.oracles: pubkey -> Oracle record
    order,     \* insertion order of the keys of self.oracles
    ret,       \* outcome of the most recent call: value returned or exception
    ledger,    \* per oracle: stake registered and sum of the amounts
               \* slash_oracle returned for it (what the caller routes)
    pc,        \* position of each /consensus request task
    target,    \* the outlier's public key each task slashes
    loaded,    \* slashed_count as read by each task
    running,   \* the task that holds the event loop
    base,      \* registry at the moment the concurrent requests were made
    remembered, \* an earlier select_oracles call kept for comparison: its
                \* arguments, the set of active oracles and what it returned
    pending,   \* the call that was made and has not returned: its arguments
    signing_key \* VERIFIER_PRIVATE_KEY of the verifier service

vars == <<oracles, order, ret, ledger, pc, target, loaded, running, base,
          remembered, pending, signing_key>>

\* --------------------------------------------------------------- helpers
Max(a, b) == IF a >= b THEN a ELSE b

Result(op, args, value, raised) ==
    [op |-> op, args |-> args, value |-> value, raised |-> raised]

\* ------------------------------------------------------ register_oracle
\* The Oracle(...) record built by register_oracle.
NewOracle(pubkey, stake) ==
    [pubkey            |-> pubkey,
     stake             |-> stake,
     total_assessments |-> 0,
     slashed_count     |-> 0,
     reputation_score  |-> 500,
     status            |-> ACTIVE]

RegistrationRejectedNoDuplicateCheck(reg, pubkey, stake) ==
    stake < MIN_STAKE

RegistrationRejectedAtBoundary(reg, pubkey, stake) ==
    \/ stake <= MIN_STAKE
    \/ pubkey \in DOMAIN reg

\* The two early returns of register_oracle.
RegistrationRejected(reg, pubkey, stake) ==
    \/ stake < MIN_STAKE
    \/ pubkey \in DOMAIN reg

\* self.oracles[pubkey] = oracle
Put(reg, pubkey, oracle) ==
    [pk \in DOMAIN reg \cup {pubkey} |->
        IF pk = pubkey THEN oracle ELSE reg[pk]]

register_oracle(pubkey, stake) ==
    IF RegistrationRejected(oracles, pubkey, stake)
    THEN /\ ret' = Result("register_oracle", <<pubkey, stake>>, FALSE, None)
         /\ UNCHANGED <<oracles, order, ledger>>
    ELSE /\ oracles' = Put(oracles, pubkey, NewOracle(pubkey, stake))
         /\ order' = IF pubkey \in DOMAIN oracles
                     THEN order ELSE Append(order, pubkey)
         /\ ledger' = Put(ledger, pubkey, [staked |-> stake, returned |-> 0])
         /\ ret' = Result("register_oracle", <<pubkey, stake>>, TRUE, None)

\* --------------------------------------------------------- slash_oracle
\* Each offence yields [oracle, slashed_amount, banned].
Penalty(o, amount, banned) ==
    [oracle |-> o, slashed_amount |-> amount, banned |-> banned]

\* stake * 0.10 and stake * 0.50
Fraction(stake, percent) == (stake * percent) \div 100

FirstOffenseNoFloor(o) ==
    Penalty([o EXCEPT !.reputation_score = o.reputation_score - 100], 0, FALSE)

\* slashed_count == 1: warning only
FirstOffense(o) ==
    Penalty([o EXCEPT !.reputation_score = Max(0, o.reputation_score - 100)],
            0, FALSE)

SecondOffenseAddsStake(o) ==
    LET amount == Fraction(o.stake, 10)
    IN  Penalty([o EXCEPT !.stake = o.stake + amount,
                          !.reputation_score =
                              Max(0, o.reputation_score - 200)],
                amount, FALSE)

\* slashed_count == 2: 10% of the stake and reputation
SecondOffense(o) ==
    LET amount == Fraction(o.stake, 10)
    IN  Penalty([o EXCEPT !.stake = o.stake - amount,
                          !.reputation_score =
                              Max(0, o.reputation_score - 200)],
                amount, FALSE)

ThirdOffenseTenPercent(o) ==
    LET amount == Fraction(o.stake, 10)
    IN  Penalty([o EXCEPT !.stake = o.stake - amount,
                          !.status = SUSPENDED],
                amount, FALSE)

\* slashed_count == 3: 50% of the stake and suspension
ThirdOffense(o) ==
    LET amount == Fraction(o.stake, 50)
    IN  Penalty([o EXCEPT !.stake = o.stake - amount,
                          !.status = SUSPENDED],
                amount, FALSE)

FourthOffenseKeepsStake(o) ==
    Penalty([o EXCEPT !.status = BANNED], 0, TRUE)

\* slashed_count >= 4: all remaining stake and permanent ban
FourthOffense(o) ==
    Penalty([o EXCEPT !.stake = 0, !.status = BANNED], o.stake, TRUE)

\* The if/elif chain of slash_oracle on the incremented slashed_count.
Penalise(o) ==
    IF o.slashed_count = 1 THEN FirstOffense(o)
    ELSE IF o.slashed_count = 2 THEN SecondOffense(o)
    ELSE IF o.slashed_count = 3 THEN ThirdOffense(o)
    ELSE FourthOffense(o)

\* oracle.slashed_count += 1, then the penalty.
SlashRecord(o) ==
    Penalise([o EXCEPT !.slashed_count = o.slashed_count + 1])

UnknownOracleKeyError(pubkey) ==
    Result("slash_oracle", <<pubkey>>, None, "KeyError")

\* What slash_oracle does with a key that is not in self.oracles:
\* it logs and returns (0.0, False); nothing is raised.
UnknownOracleResult(pubkey) ==
    Result("slash_oracle", <<pubkey>>, <<0, FALSE>>, None)

slash_oracle(pubkey) ==
    IF pubkey \notin DOMAIN oracles
    THEN /\ ret' = UnknownOracleResult(pubkey)
         /\ UNCHANGED <<oracles, order, ledger>>
    ELSE LET p == SlashRecord(oracles[pubkey])
         IN  /\ oracles[pubkey].slashed_count < MaxSlashes
             /\ oracles' = [oracles EXCEPT ![pubkey] = p.oracle]
             /\ ledger' = [ledger EXCEPT ![pubkey].returned =
                                             @ + p.slashed_amount]
             /\ ret' = Result("slash_oracle", <<pubkey>>,
                              <<p.slashed_amount, p.banned>>, None)
             /\ UNCHANGED order

\* -------------------------------------------------------- select_oracles
\* First four bytes of hashlib.sha256(seed + nonce.to_bytes(4, 'big')),
\* for nonce = 0..15 (index nonce + 1), as SHA-256 computes them.
DigestPrefix(seed) ==
    CASE seed = "x" ->
      <<<<50,119,32,190>>, <<154,166,208,108>>, <<123,254,32,52>>, <<48,249,203,122>>,
        <<126,66,206,244>>, <<78,224,225,230>>, <<128,238,76,162>>, <<134,215,37,201>>,
        <<181,3,102,32>>, <<254,218,112,164>>, <<222,240,23,45>>, <<129,149,1,0>>,
        <<77,57,97,151>>, <<196,172,11,163>>, <<42,232,74,176>>, <<192,202,204,59>>>>
      [] seed = "a" ->
      <<<<218,226,85,233>>, <<113,127,144,82>>, <<45,59,184,136>>, <<81,24,171,210>>,
        <<82,239,104,139>>, <<207,83,7,217>>, <<190,48,154,158>>, <<222,32,33,128>>,
        <<242,44,232,185>>, <<195,243,174,54>>, <<221,29,37,124>>, <<133,249,74,164>>,
        <<21,22,199,102>>, <<120,173,231,210>>, <<103,215,157,217>>, <<144,244,217,176>>>>
      [] seed = "b" ->
      <<<<236,82,232,30>>, <<200,157,55,153>>, <<141,247,62,53>>, <<131,166,107,144>>,
        <<134,19,0,22>>, <<136,94,240,94>>, <<168,181,85,101>>, <<119,154,207,72>>,
        <<68,241,100,137>>, <<90,153,74,15>>, <<23,20,105,46>>, <<169,4,101,223>>,
        <<127,173,124,104>>, <<142,173,109,136>>, <<135,82,150,86>>, <<185,241,235,49>>>>

\* int.from_bytes(h[:4], 'big') % n, reduced byte by byte (the 32-bit value
\* itself exceeds the model checker's integers).
IndexOf(h, n) ==
    ((((((h[1] % n) * 256 + h[2]) % n) * 256 + h[3]) % n) * 256 + h[4]) % n

InSeq(x, s) == \E i \in 1..Len(s) : s[i] = x

ActiveOraclesCleanestFirst(reg, ord) ==
    LET clean(k) == SelectSeq(ord, LAMBDA pk : /\ reg[pk].status = ACTIVE
                                               /\ reg[pk].slashed_count = k)
    IN  clean(0) \o clean(1) \o clean(2)

ActiveOraclesAnyStatusButBanned(reg, ord) ==
    SelectSeq(ord, LAMBDA pk : reg[pk].status # BANNED)

\* The list comprehension over self.oracles.items(): the keys, in insertion
\* order, whose status is ACTIVE.
ActiveOracles(reg, ord) ==
    SelectSeq(ord, LAMBDA pk : reg[pk].status = ACTIVE)

RECURSIVE SelectLoop(_, _, _, _, _)
\* The while loop of select_oracles.
SelectLoop(active, count, seed, selected, nonce) ==
    IF Len(selected) >= count THEN selected
    ELSE LET index     == IndexOf(DigestPrefix(seed)[nonce + 1], Len(active))
             oracle_pk == active[index + 1]
         IN  SelectLoop(active, count, seed,
                        IF InSeq(oracle_pk, selected)
                        THEN selected ELSE Append(selected, oracle_pk),
                        nonce + 1)

select_oracles(count, seed) ==
    LET active_oracles == ActiveOracles(oracles, order)
    IN  /\ ret' = IF Len(active_oracles) < count
                  THEN Result("select_oracles", <<count, seed>>,
                              None, "ValueError")
                  ELSE Result("select_oracles", <<count, seed>>,
                              SelectLoop(active_oracles, count, seed, <<>>, 0),
                              None)
        /\ UNCHANGED <<oracles, order, ledger>>

\* --------------------------------------------------------- specification
NoTasks == [t \in {} |-> None]

\* No call waiting to be served.
Idle == [op |-> "idle", args |-> <<>>]

Call(op, args) == [op |-> op, args |-> args]

\* No selection remembered yet.
NoCall == [made |-> FALSE, count |-> 0, seed |-> "x", active |-> {},
           value |-> <<>>, raised |-> None]

Init ==
    /\ oracles = [pk \in {} |-> None]
    /\ order = <<>>
    /\ ledger = [pk \in {} |-> None]
    /\ ret = Result("init", <<>>, None, None)
    /\ pc = NoTasks
    /\ target = NoTasks
    /\ loaded = NoTasks
    /\ running = None
    /\ base = None
    /\ remembered = NoCall
    /\ signing_key = None
    /\ pending = Idle

Register ==
    /\ \E pubkey \in Keys, stake \in StakeInputs : register_oracle(pubkey, stake)
    /\ UNCHANGED <<pc, target, loaded, running, base, signing_key, remembered,
                 pending>>

Slash ==
    /\ \E pubkey \in Keys : slash_oracle(pubkey)
    /\ UNCHANGED <<pc, target, loaded, running, base, signing_key, remembered,
                 pending>>

Select ==
    /\ \E count \in 0..MaxCount, seed \in Seeds : select_oracles(count, seed)
    /\ UNCHANGED <<pc, target, loaded, running, base, signing_key, remembered,
                 pending>>

Next == Register \/ Slash \/ Select

Spec == Init /\ [][Next]_vars

\* ------------------------------------------------- handle_oracle_timeout
\* MultiOracleSystem.handle_oracle_timeout(pubkey, timeout_seconds) is called
\* by test_multi_oracle.py; its body is not among the sources.  It is modelled
\* from the specification (4.8, 4.9): 50 reputation points are deducted from
\* the timed-out oracle, floored at 0, nothing else of the record changes,
\* and a backup is returned: an active oracle other than the timed-out one,
\* or None when there is none.  Which backup is chosen is left open.
TimeoutPenaltySlashing(o) ==
    [o EXCEPT !.reputation_score = Max(0, o.reputation_score - 50),
              !.slashed_count = o.slashed_count + 1]

TimeoutPenalty(o) ==
    [o EXCEPT !.reputation_score = Max(0, o.reputation_score - 50)]

BackupCandidates(reg, pubkey) ==
    {pk \in DOMAIN reg : pk # pubkey /\ reg[pk].status = ACTIVE}

handle_oracle_timeout(pubkey) ==
    /\ pubkey \in DOMAIN oracles
    /\ oracles' = [oracles EXCEPT ![pubkey] = TimeoutPenalty(@)]
    /\ LET candidates == BackupCandidates(oracles, pubkey)
       IN  IF candidates = {}
           THEN ret' = Result("handle_oracle_timeout", <<pubkey>>, None, None)
           ELSE \E backup \in candidates :
                    ret' = Result("handle_oracle_timeout", <<pubkey>>,
                                  backup, None)
    /\ UNCHANGED <<order, ledger>>

\* Keys registered where timeouts are explored.
TimeoutKeys == {"k1", "k2"}

RegisterTimeoutKeys ==
    /\ \E pubkey \in TimeoutKeys, stake \in StakeInputs :
           register_oracle(pubkey, stake)
    /\ UNCHANGED <<pc, target, loaded, running, base, signing_key, remembered,
                 pending>>

Timeout ==
    /\ \E pubkey \in Keys : handle_oracle_timeout(pubkey)
    /\ UNCHANGED <<pc, target, loaded, running, base, signing_key, remembered,
                 pending>>

NextFallback == RegisterTimeoutKeys \/ Slash \/ Timeout

\* The registry with timeouts: register_oracle, slash_oracle and
\* handle_oracle_timeout in any order.
SpecFallback == Init /\ [][NextFallback]_vars

\* ------------------------------------ concurrent POST /consensus requests
\* Two requests whose consensus has one outlier each reach the loop
\* "for idx in consensus.outlier_indices: global_system.slash_oracle(...)".
\* The handler is a coroutine on the single event loop of uvicorn.run(app):
\* a task keeps the loop until it awaits or returns.  slash_oracle is taken
\* in two steps, the read of slashed_count and the write of the incremented
\* count with its penalty, so that a yield between them would show.
Tasks == {"t1", "t2"}

HandlerYieldsAfterLoad(position) == position = "loaded"

\* Whether the handler gives up the event loop at this position: neither
\* the handler body nor slash_oracle (a plain def) contains an await.
HandlerYields(position) == FALSE

RECURSIVE SlashTimes(_, _)
\* The record after n successive slash_oracle calls.
SlashTimes(o, n) ==
    IF n = 0 THEN o ELSE SlashTimes(SlashRecord(o).oracle, n - 1)

\* slash_oracle up to "oracle.slashed_count" being read
LoadCount(t) ==
    /\ pc[t] = "start"
    /\ running \in {None, t}
    /\ IF target[t] \notin DOMAIN oracles
       THEN /\ pc' = [pc EXCEPT ![t] = "done"]
            /\ running' = None
            /\ UNCHANGED loaded
       ELSE /\ loaded' = [loaded EXCEPT ![t] = oracles[target[t]].slashed_count]
            /\ pc' = [pc EXCEPT ![t] = "loaded"]
            /\ running' = IF HandlerYields("loaded") THEN None ELSE t
    /\ UNCHANGED <<oracles, order, ret, ledger, target, base, signing_key, remembered,
                 pending>>

\* "slashed_count = <read> + 1" stored, the penalty applied, the handler
\* returns its response (the pair slash_oracle returns is dropped).
StoreAndPenalise(t) ==
    /\ pc[t] = "loaded"
    /\ running \in {None, t}
    /\ oracles' = [oracles EXCEPT ![target[t]] =
                      Penalise([@ EXCEPT !.slashed_count = loaded[t] + 1]).oracle]
    /\ pc' = [pc EXCEPT ![t] = "done"]
    /\ running' = None
    /\ UNCHANGED <<order, ret, ledger, target, loaded, base, signing_key, remembered,
                 pending>>

\* The registry when the two requests arrive: k1 and k2 registered, each
\* already slashed some number of times.
InitConcurrent ==
    \E s1 \in {s \in StakeInputs : s >= MIN_STAKE},
       n1 \in 0..(MaxSlashes - 2), n2 \in 0..1 :
        /\ oracles = [pk \in {"k1", "k2"} |->
                        IF pk = "k1" THEN SlashTimes(NewOracle("k1", s1), n1)
                        ELSE SlashTimes(NewOracle("k2", MIN_STAKE), n2)]
        /\ order = <<"k1", "k2">>
        /\ ledger = [pk \in {"k1", "k2"} |->
                        [staked   |-> IF pk = "k1" THEN s1 ELSE MIN_STAKE,
                         returned |-> (IF pk = "k1" THEN s1 ELSE MIN_STAKE)
                                          - oracles[pk].stake]]
        /\ ret = Result("init", <<>>, None, None)
        /\ pc = [t \in Tasks |-> "start"]
        /\ target \in [Tasks -> Keys]
        /\ loaded = [t \in Tasks |-> None]
        /\ running = None
        /\ base = oracles
        /\ remembered = NoCall
        /\ signing_key = None
        /\ pending = Idle

NextConcurrent == \E t \in Tasks : LoadCount(t) \/ StoreAndPenalise(t)

SpecConcurrent == InitConcurrent /\ [][NextConcurrent]_vars

\* ------------------------------------------- selections on one registry
\* The registry lives as long as the process (global_system).  To compare
\* two calls of select_oracles made at different moments of that life, one
\* call is remembered with the set of oracles that were active when it was
\* made; the calls that follow use the remembered arguments.  Calls with
\* other arguments leave the registry as it is and are left out.
ActiveSet == {pk \in DOMAIN oracles : oracles[pk].status = ACTIVE}

RegisterMinStake ==
    /\ \E pubkey \in Keys : register_oracle(pubkey, MIN_STAKE)
    /\ UNCHANGED <<pc, target, loaded, running, base, signing_key, remembered,
                 pending>>

SelectFirst ==
    /\ ~remembered.made
    /\ \E count \in 0..MaxCount, seed \in Seeds :
            /\ select_oracles(count, seed)
            /\ remembered' = [made   |-> TRUE,
                              count  |-> count,
                              seed   |-> seed,
                              active |-> ActiveSet,
                              value  |-> IF ret'.raised = None
                                         THEN ret'.value ELSE <<>>,
                              raised |-> ret'.raised]
    /\ UNCHANGED <<pc, target, loaded, running, base, signing_key, pending>>

SelectAgain ==
    /\ remembered.made
    /\ select_oracles(remembered.count, remembered.seed)
    /\ UNCHANGED <<pc, target, loaded, running, base, signing_key, remembered,
                 pending>>

NextSelect == RegisterMinStake \/ Slash \/ SelectFirst \/ SelectAgain

SpecSelect == Init /\ [][NextSelect]_vars

\* ------------------------------------------------------------- consensus
\* Bound: the longest list of assessments handed to calculate_consensus.
MaxAssessments == 5

MIN_ORACLES == 3

\* Scores the oracles report; 70, 72, 70, 71, 5 is the outlier test's list.
ScoreInputs == {5, 65, 70, 71, 72, 75, 95}

\* The floats of the code are kept exact: a quotient is a numerator over a
\* positive denominator, a square root is kept as the quotient under it.
Frac(num, den) == [num |-> num, den |-> den]

Root(squared) == [squared |-> squared]

Abs(x) == IF x >= 0 THEN x ELSE -x

\* int(x): truncation toward zero.
int(x) == IF x.num >= 0 THEN x.num \div x.den ELSE -((-x.num) \div x.den)

\* OUTLIER_THRESHOLD = 1.5
OUTLIER_THRESHOLD_TWO == Frac(2, 1)

OUTLIER_THRESHOLD == Frac(3, 2)

RECURSIVE SumOf(_)
SumOf(s) == IF s = <<>> THEN 0 ELSE Head(s) + SumOf(Tail(s))

Squares(s) == [i \in 1..Len(s) |-> s[i] * s[i]]

RECURSIVE sorted(_)
sorted(s) ==
    IF s = <<>> THEN <<>>
    ELSE LET rest == sorted(Tail(s))
         IN  SelectSeq(rest, LAMBDA y : y < Head(s)) \o <<Head(s)>>
                 \o SelectSeq(rest, LAMBDA y : y >= Head(s))

\* statistics.median: the middle value, or the mean of the two middle
\* values of an even number of data.
statistics_median_low(data) ==
    LET srt == sorted(data)
        n   == Len(data)
    IN  Frac(srt[(n + 1) \div 2], 1)

statistics_median(data) ==
    LET srt == sorted(data)
        n   == Len(data)
    IN  IF n % 2 = 1 THEN Frac(srt[(n + 1) \div 2], 1)
        ELSE Frac(srt[n \div 2] + srt[n \div 2 + 1], 2)

\* statistics.mean
statistics_mean(data) == Frac(SumOf(data), Len(data))

\* statistics.stdev, the sample standard deviation: the root of
\* sum((x - mean)^2) / (n - 1) = (n * sum(x^2) - sum(x)^2) / (n * (n - 1)).
statistics_stdev(data) ==
    LET n == Len(data)
        t == SumOf(data)
    IN  Root(Frac(n * SumOf(Squares(data)) - t * t, n * (n - 1)))

\* std_dev < bound, for a whole number bound.
Below(std_dev, bound) ==
    std_dev.squared.num < bound * bound * std_dev.squared.den

\* abs(score - mean_score)
Deviation(score, mean_score) ==
    Frac(Abs(score * mean_score.den - mean_score.num), mean_score.den)

\* deviation > OUTLIER_THRESHOLD * std_dev, both sides squared.
DeviatesOrEqual(deviation, std_dev) ==
    LET t == OUTLIER_THRESHOLD
        v == std_dev.squared
    IN  deviation.num * deviation.num * t.den * t.den * v.den
            >= t.num * t.num * v.num * deviation.den * deviation.den

Deviates(deviation, std_dev) ==
    LET t == OUTLIER_THRESHOLD
        v == std_dev.squared
    IN  deviation.num * deviation.num * t.den * t.den * v.den
            > t.num * t.num * v.num * deviation.den * deviation.den

\* The loop over enumerate(scores): the indices, counted from 0, appended
\* in increasing order.
RECURSIVE OutlierLoop(_, _, _, _, _)
OutlierLoop(scores, mean_score, std_dev, i, outlier_indices) ==
    IF i > Len(scores) THEN outlier_indices
    ELSE OutlierLoop(scores, mean_score, std_dev, i + 1,
                     IF Deviates(Deviation(scores[i], mean_score), std_dev)
                     THEN Append(outlier_indices, i - 1)
                     ELSE outlier_indices)

calculate_confidence_inclusive(std_dev) ==
    IF      Below(std_dev, 5)  \/ std_dev.squared.num = 25 * std_dev.squared.den
    THEN 100
    ELSE IF Below(std_dev, 10) \/ std_dev.squared.num = 100 * std_dev.squared.den
    THEN 90
    ELSE IF Below(std_dev, 15) \/ std_dev.squared.num = 225 * std_dev.squared.den
    THEN 75
    ELSE IF Below(std_dev, 20) \/ std_dev.squared.num = 400 * std_dev.squared.den
    THEN 60
    ELSE 40

calculate_confidence(std_dev) ==
    IF      Below(std_dev, 5)  THEN 100
    ELSE IF Below(std_dev, 10) THEN 90
    ELSE IF Below(std_dev, 15) THEN 75
    ELSE IF Below(std_dev, 20) THEN 60
    ELSE 40

ScoresOf(assessments) ==
    [i \in 1..Len(assessments) |-> assessments[i].quality_score]

TooFewAssessmentsBelowTwo(assessments) == Len(assessments) < 2

TooFewAssessments(assessments) == Len(assessments) < MIN_ORACLES

ConsensusResult(assessments) ==
    LET scores     == ScoresOf(assessments)
        mean_score == statistics_mean(scores)
        std_dev    == IF Len(scores) > 1 THEN statistics_stdev(scores)
                      ELSE Root(Frac(0, 1))
    IN  [median_score    |-> int(statistics_median(scores)),
         mean_score      |-> mean_score,
         std_dev         |-> std_dev,
         confidence      |-> calculate_confidence(std_dev),
         outlier_indices |-> OutlierLoop(scores, mean_score, std_dev, 1, <<>>),
         assessments     |-> assessments]

\* What a call of calculate_consensus yields: the result, or ValueError.
calculate_consensus(assessments) ==
    IF TooFewAssessments(assessments)
    THEN Result("calculate_consensus", <<assessments>>, None, "ValueError")
    ELSE Result("calculate_consensus", <<assessments>>,
                ConsensusResult(assessments), None)

\* Oracle i of a request reports scores[i].
PubkeyOf(i) == <<"k1", "k2", "k3", "k4", "k5", "k6", "k7">>[i]

AssessmentsOf(scores) ==
    [i \in 1..Len(scores) |->
        [oracle_pubkey |-> PubkeyOf(i), quality_score |-> scores[i]]]

ScoreLists == UNION {[1..n -> ScoreInputs] : n \in 0..MaxAssessments}

\* The state after construction with one call of calculate_consensus made.
InitConsensus ==
    /\ oracles = [pk \in {} |-> None]
    /\ order = <<>>
    /\ ledger = [pk \in {} |-> None]
    /\ ret = Result("init", <<>>, None, None)
    /\ pc = NoTasks
    /\ target = NoTasks
    /\ loaded = NoTasks
    /\ running = None
    /\ base = None
    /\ remembered = NoCall
    /\ signing_key = None
    /\ \E scores \in ScoreLists :
            pending = Call("calculate_consensus", <<AssessmentsOf(scores)>>)

Consensus ==
    /\ pending.op = "calculate_consensus"
    /\ ret' = calculate_consensus(pending.args[1])
    /\ pending' = Idle
    /\ UNCHANGED <<oracles, order, ledger, pc, target, loaded, running, base, signing_key,
                   remembered>>

NextConsensus == Consensus

SpecConsensus == InitConsensus /\ [][NextConsensus]_vars

\* ------------------------------------------------------------ confidence
\* Bound: the largest std_dev handed to _calculate_confidence, in quarters
\* of a point.
MaxQuarterPoints == 100

\* The float q / 4.
QuarterPoints(q) == Root(Frac(q * q, 4 * 4))

StdDevInputs == {QuarterPoints(q) : q \in 0..MaxQuarterPoints}

\* The state after construction with one call of _calculate_confidence made.
InitConfidence ==
    /\ oracles = [pk \in {} |-> None]
    /\ order = <<>>
    /\ ledger = [pk \in {} |-> None]
    /\ ret = Result("init", <<>>, None, None)
    /\ pc = NoTasks
    /\ target = NoTasks
    /\ loaded = NoTasks
    /\ running = None
    /\ base = None
    /\ remembered = NoCall
    /\ signing_key = None
    /\ \E std_dev \in StdDevInputs :
            pending = Call("calculate_confidence", <<std_dev>>)

Confidence ==
    /\ pending.op = "calculate_confidence"
    /\ ret' = Result("calculate_confidence", pending.args,
                     calculate_confidence(pending.args[1]), None)
    /\ pending' = Idle
    /\ UNCHANGED <<oracles, order, ledger, pc, target, loaded, running, base, signing_key,
                   remembered>>

NextConfidence == Confidence

SpecConfidence == InitConfidence /\ [][NextConfidence]_vars

\* -------------------------------------------------------- POST /consensus
\* Amounts of SOL are counted in UnitsPerSol-ths, as the stakes are.
THRESHOLD_OPTIONAL_REVIEW == UnitsPerSol \div 10

THRESHOLD_MANDATORY_MULTI == 1 * UnitsPerSol

requires_multi_oracle(transaction_value) ==
    IF transaction_value >= THRESHOLD_MANDATORY_MULTI THEN <<TRUE, MIN_ORACLES>>
    ELSE IF transaction_value >= THRESHOLD_OPTIONAL_REVIEW THEN <<FALSE, 1>>
    ELSE <<FALSE, 1>>

Min(a, b) == IF a <= b THEN a ELSE b

\* escrow_amount * 0.001 clamped to [0.0001, 0.01] SOL, as a quotient of
\* SOL: one UnitsPerSol-th of a thousandth of the escrow's units.
BaseFee(escrow_amount) ==
    LET scale == 1000 * UnitsPerSol
    IN  Frac(Max(scale \div 10000, Min(escrow_amount, scale \div 100)), scale)

calculate_fee_split_among_all(escrow_amount, oracle_count) ==
    LET base_fee == BaseFee(escrow_amount)
    IN  IF oracle_count = 1
        THEN [primary |-> base_fee]
        ELSE [primary   |-> Frac(base_fee.num * 60, base_fee.den * 100),
              secondary |-> Frac(base_fee.num * 40,
                                 base_fee.den * 100 * oracle_count)]

calculate_fee_split(escrow_amount, oracle_count) ==
    LET base_fee == BaseFee(escrow_amount)
    IN  IF oracle_count = 1
        THEN [primary |-> base_fee]
        ELSE [primary   |-> Frac(base_fee.num * 60, base_fee.den * 100),
              secondary |-> Frac(base_fee.num * 40,
                                 base_fee.den * 100 * (oracle_count - 1))]

\* The refund the handler derives from the median.
ConsensusRefund(median) ==
    IF median < 50 THEN Frac(100, 1)
    ELSE IF median < 80 THEN Frac((80 - median) * 100, 80)
    ELSE Frac(0, 1)

Registry(reg, led) == [oracles |-> reg, ledger |-> led]

\* slash_oracle as the handler calls it: what it returns is dropped.
SlashOne(registry, pubkey) ==
    IF pubkey \notin DOMAIN registry.oracles THEN registry
    ELSE LET p == SlashRecord(registry.oracles[pubkey])
         IN  Registry([registry.oracles EXCEPT ![pubkey] = p.oracle],
                      [registry.ledger EXCEPT ![pubkey].returned =
                                                  @ + p.slashed_amount])

RECURSIVE SlashNextToOutliers(_, _, _)
SlashNextToOutliers(registry, assessments, outlier_indices) ==
    IF outlier_indices = <<>> THEN registry
    ELSE SlashNextToOutliers(
             SlashOne(registry,
                      assessments[((Head(outlier_indices) + 1)
                                      % Len(assessments)) + 1].oracle_pubkey),
             assessments, Tail(outlier_indices))

\* for idx in consensus.outlier_indices: slash_oracle(assessments[idx]...)
RECURSIVE SlashOutliers(_, _, _)
SlashOutliers(registry, assessments, outlier_indices) ==
    IF outlier_indices = <<>> THEN registry
    ELSE SlashOutliers(
             SlashOne(registry,
                      assessments[Head(outlier_indices) + 1].oracle_pubkey),
             assessments, Tail(outlier_indices))

ConsensusResponse(consensus, transaction_value) ==
    [median_score      |-> consensus.median_score,
     mean_score        |-> consensus.mean_score,
     std_dev           |-> consensus.std_dev,
     confidence        |-> consensus.confidence,
     outlier_count     |-> Len(consensus.outlier_indices),
     refund_percentage |-> ConsensusRefund(consensus.median_score),
     fees              |-> calculate_fee_split(transaction_value,
                                               Len(consensus.assessments))]

\* The handler of POST /consensus.  Every exception raised inside its try
\* block, the HTTPException(400) included, leaves as HTTPException(500)
\* with the exception's text as detail.
post_consensus(transaction_value, assessments) ==
    LET args      == <<transaction_value, assessments>>
        required  == requires_multi_oracle(transaction_value)[1]
        consensus == calculate_consensus(assessments)
    IN  IF ~required
        THEN /\ ret' = Result("POST /consensus", args, None, "500: 400")
             /\ UNCHANGED <<oracles, order, ledger>>
        ELSE IF consensus.raised # None
        THEN /\ ret' = Result("POST /consensus", args, None,
                              "500: ValueError")
             /\ UNCHANGED <<oracles, order, ledger>>
        ELSE LET outliers == consensus.value.outlier_indices
                 slashed  == SlashOutliers(Registry(oracles, ledger),
                                           assessments, outliers)
             IN  /\ \A k \in 1..Len(outliers) :
                        LET pk == assessments[outliers[k] + 1].oracle_pubkey
                        IN  pk \in DOMAIN oracles =>
                                oracles[pk].slashed_count + Len(outliers)
                                    <= MaxSlashes
                 /\ oracles' = slashed.oracles
                 /\ ledger' = slashed.ledger
                 /\ ret' = Result("POST /consensus", args,
                                  ConsensusResponse(consensus.value,
                                                    transaction_value),
                                  None)
                 /\ UNCHANGED order

\* Requests: escrows below and above the mandatory threshold, and score
\* lists that are too short, agree, or hold one outlier at some position.
ValueInputs == {UnitsPerSol \div 2, (3 * UnitsPerSol) \div 2}

RequestScores ==
    {<<70>>, <<70, 5>>, <<75, 75, 5>>, <<70, 72, 70, 71, 5>>,
     <<5, 72, 70, 71, 70>>, <<70, 5, 72, 71, 70>>, <<70, 72, 5, 71, 70>>}

Receive ==
    /\ pending = Idle
    /\ \E transaction_value \in ValueInputs, scores \in RequestScores :
            pending' = Call("POST /consensus",
                            <<transaction_value, AssessmentsOf(scores)>>)
    /\ UNCHANGED <<oracles, order, ret, ledger, pc, target, loaded, running,
                   base, signing_key, remembered>>

Serve ==
    /\ pending.op = "POST /consensus"
    /\ post_consensus(pending.args[1], pending.args[2])
    /\ pending' = Idle
    /\ UNCHANGED <<pc, target, loaded, running, base, signing_key, remembered>>

NextRequests == RegisterMinStake \/ Receive \/ Serve

SpecRequests == Init /\ [][NextRequests]_vars

\* ------------------------------------------------- verifier: the refund
\* Bound: the largest quality score handed to determine_refund, in halves
\* of a point.
MaxHalfScore == 200

RECURSIVE GCD(_, _)
GCD(a, b) == IF b = 0 THEN a ELSE GCD(b, a % b)

\* num / den in lowest terms with a positive denominator.
Quot(num, den) ==
    LET g == GCD(Abs(num), Abs(den))
    IN  IF den < 0 THEN Frac((-num) \div g, (-den) \div g)
        ELSE Frac(num \div g, den \div g)

Plus(a, b) == Quot(a.num * b.den + b.num * a.den, a.den * b.den)

Times(a, b) == Quot(a.num * b.num, a.den * b.den)

AtLeast(a, b) == a.num * b.den >= b.num * a.den

Whole(n) == Frac(n, 1)

determine_refund_exclusive(quality_score) ==
    IF quality_score.num > 80 * quality_score.den
    THEN <<"release", Whole(0)>>
    ELSE IF quality_score.num > 50 * quality_score.den
    THEN <<"partial_refund",
           Times(Quot(80 * quality_score.den - quality_score.num,
                      80 * quality_score.den), Whole(100))>>
    ELSE <<"full_refund", Whole(100)>>

\* VerifierOracle.determine_refund: ((80 - quality_score) / 80) * 100 is
\* returned as it is, a float.
determine_refund(quality_score) ==
    IF AtLeast(quality_score, Whole(80))
    THEN <<"release", Whole(0)>>
    ELSE IF AtLeast(quality_score, Whole(50))
    THEN <<"partial_refund",
           Times(Quot(80 * quality_score.den - quality_score.num,
                      80 * quality_score.den), Whole(100))>>
    ELSE <<"full_refund", Whole(100)>>

QualityInputs == {Quot(h, 2) : h \in 0..MaxHalfScore}

\* The state after construction with one call of determine_refund made.
InitRefund ==
    /\ oracles = [pk \in {} |-> None]
    /\ order = <<>>
    /\ ledger = [pk \in {} |-> None]
    /\ ret = Result("init", <<>>, None, None)
    /\ pc = NoTasks
    /\ target = NoTasks
    /\ loaded = NoTasks
    /\ running = None
    /\ base = None
    /\ remembered = NoCall
    /\ signing_key = None
    /\ \E quality_score \in QualityInputs :
            pending = Call("determine_refund", <<quality_score>>)

Refund ==
    /\ pending.op = "determine_refund"
    /\ ret' = Result("determine_refund", pending.args,
                     determine_refund(pending.args[1]), None)
    /\ pending' = Idle
    /\ UNCHANGED <<oracles, order, ledger, pc, target, loaded, running, base,
                   remembered, signing_key>>

NextRefund == Refund

SpecRefund == InitRefund /\ [][NextRefund]_vars

\* ---------------------------------------------- verifier: the signature
\* Bound: the longest transaction id, in characters.
MaxIdLen == 2

\* Strings are sequences of characters.  A transaction id is any string;
\* these hold a letter, a digit and the separator itself.
IdChars == {"t", ":", "7"}

TransactionIds == UNION {[1..n -> IdChars] : n \in 0..MaxIdLen}

SignedScores == {0, 5, 75, 100}

\* VERIFIER_PRIVATE_KEY = nacl.signing.SigningKey.generate(), once, when
\* the module is loaded.
SigningKeys == {"key1", "key2"}

DigitChars == <<"0", "1", "2", "3", "4", "5", "6", "7", "8", "9">>

RECURSIVE Digits(_)
Digits(n) ==
    IF n < 10 THEN <<DigitChars[n + 1]>>
    ELSE Append(Digits(n \div 10), DigitChars[(n % 10) + 1])

\* f"{quality_score}" of an int.
FormatInt(n) == IF n < 0 THEN <<"-">> \o Digits(-n) ELSE Digits(n)

CanonicalMessageNoSeparator(transaction_id, quality_score) ==
    transaction_id \o FormatInt(quality_score)

\* f"{transaction_id}:{quality_score}".encode()
CanonicalMessage(transaction_id, quality_score) ==
    transaction_id \o <<":">> \o FormatInt(quality_score)

\* Ed25519 as PyNaCl provides it, idealised: the signature is determined
\* by the key and the message, and verifies for that key and message only.
Ed25519Sign(key, message) == [signer |-> key, signed |-> message]

Ed25519Verify(key, message, signature) ==
    signature = Ed25519Sign(key, message)

\* signed.signature.hex() and its inverse, bytes.fromhex.
Hex(signature) == [hex |-> signature]

FromHex(text) == text.hex

sign_result(transaction_id, quality_score) ==
    Hex(Ed25519Sign(signing_key,
                    CanonicalMessage(transaction_id, quality_score)))

\* The state after the verifier module is loaded.
InitVerifier ==
    /\ oracles = [pk \in {} |-> None]
    /\ order = <<>>
    /\ ledger = [pk \in {} |-> None]
    /\ ret = Result("init", <<>>, None, None)
    /\ pc = NoTasks
    /\ target = NoTasks
    /\ loaded = NoTasks
    /\ running = None
    /\ base = None
    /\ remembered = NoCall
    /\ pending = Idle
    /\ signing_key \in SigningKeys

\* Two calls of sign_result on the same oracle instance; the first is
\* remembered with its arguments.
SignFirst ==
    /\ ~remembered.made
    /\ \E transaction_id \in TransactionIds, quality_score \in SignedScores :
            /\ ret' = Result("sign_result", <<transaction_id, quality_score>>,
                             sign_result(transaction_id, quality_score), None)
            /\ remembered' = [made  |-> TRUE,
                              args  |-> <<transaction_id, quality_score>>,
                              value |-> ret'.value]
    /\ UNCHANGED <<oracles, order, ledger, pc, target, loaded, running, base,
                   pending, signing_key>>

SignAgain ==
    /\ remembered.made
    /\ \E transaction_id \in TransactionIds, quality_score \in SignedScores :
            ret' = Result("sign_result", <<transaction_id, quality_score>>,
                          sign_result(transaction_id, quality_score), None)
    /\ UNCHANGED <<oracles, order, ledger, pc, target, loaded, running, base,
                   remembered, pending, signing_key>>

NextSign == SignFirst \/ SignAgain

SpecSign == InitVerifier /\ [][NextSign]_vars

\* ------------------------------------------------ POST /verify-quality
\* What the sentence-transformer model and cosine_similarity make of the
\* query and the data: a similarity, or an exception.
Similarity(num, den) == [raises |-> FALSE, value |-> Quot(num, den)]

Similarities ==
    {[raises |-> TRUE, value |-> Whole(0)],
     Similarity(-90, 100), Similarity(-20, 100), Similarity(50, 100),
     Similarity(1, 1)}

\* calculate_semantic_similarity: an exception is logged and gives 0.0.
calculate_semantic_similarity(similarity) ==
    IF similarity.raises THEN Whole(0) ELSE similarity.value

\* data_received, as far as the scoring reads it: the words that occur in
\* str(data).lower(), and the value under 'exploits': absent, something
\* without a length (None, a number), or a list of records, each with the
\* age in days of its 'date' if it has one that parses.
Exploit(dated, age) == [dated |-> dated, age |-> age]

ExploitsInputs ==
    {[kind |-> "absent",  items |-> <<>>],
     [kind |-> "unsized", items |-> <<>>],
     [kind |-> "list",    items |-> <<>>],
     [kind |-> "list",    items |-> <<Exploit(TRUE, 10)>>],
     [kind |-> "list",    items |-> <<Exploit(TRUE, 60), Exploit(TRUE, 200)>>],
     [kind |-> "list",    items |-> <<Exploit(FALSE, 0)>>],
     [kind |-> "list",    items |-> <<Exploit(TRUE, -5)>>]}

TextInputs == {{}, {"uniswap"}, {"uniswap", "exploit", "curve"}}

CriteriaInputs == {<<>>, <<"Uniswap">>, <<"Uniswap", "exploit", "curve">>}

\* Optional[int]: None, or a count.
NoCount == [given |-> FALSE, count |-> 0]

Count(n) == [given |-> TRUE, count |-> n]

ExpectedCountInputs == {NoCount, Count(0), Count(1), Count(3), Count(-1)}

\* str.lower() on the criteria used here.
Lower(word) == IF word = "Uniswap" THEN "uniswap" ELSE word

Returned(value) == [raised |-> None, value |-> value]

Raised(exception) == [raised |-> exception, value |-> Whole(0)]

\* sum(1 for criterion in expected_criteria if criterion.lower() in data_str)
CriteriaMatched(data, expected_criteria) ==
    Cardinality({i \in 1..Len(expected_criteria) :
                    Lower(expected_criteria[i]) \in data.text})

CriteriaScore(data, expected_criteria) ==
    IF Len(expected_criteria) > 0
    THEN Quot(CriteriaMatched(data, expected_criteria), Len(expected_criteria))
    ELSE Whole(1)

\* if expected_count and 'exploits' in data
CountChecked(data, expected_count) ==
    /\ expected_count.given
    /\ expected_count.count # 0
    /\ data.exploits.kind # "absent"

RecordCountScore(data, expected_count) ==
    LET actual_count == Len(data.exploits.items)
        ratio        == Quot(actual_count, expected_count.count)
    IN  IF ~CountChecked(data, expected_count) THEN Whole(1)
        ELSE IF actual_count > 0
        THEN (IF AtLeast(ratio, Whole(1)) THEN Whole(1) ELSE ratio)
        ELSE Whole(0)

Completeness(data, expected_criteria, expected_count) ==
    Plus(Times(CriteriaScore(data, expected_criteria), Quot(6, 10)),
         Times(RecordCountScore(data, expected_count), Quot(4, 10)))

calculate_completeness_absorbing(data, expected_criteria, expected_count) ==
    IF CountChecked(data, expected_count) /\ data.exploits.kind = "unsized"
    THEN Returned(Whole(0))
    ELSE Returned(Completeness(data, expected_criteria, expected_count))

\* calculate_completeness has no try: len() of a value without a length
\* raises TypeError out of it.
calculate_completeness(data, expected_criteria, expected_count) ==
    IF CountChecked(data, expected_count) /\ data.exploits.kind = "unsized"
    THEN Raised("TypeError")
    ELSE Returned(Completeness(data, expected_criteria, expected_count))

\* The ages of the records whose 'date' parses.
Ages(items) ==
    LET dated == SelectSeq(items, LAMBDA exploit : exploit.dated)
    IN  [i \in 1..Len(dated) |-> dated[i].age]

\* calculate_freshness: iterating a value that is no list raises inside
\* the try and gives 0.5.
calculate_freshness(data) ==
    LET timestamps == Ages(data.exploits.items)
        avg_age_days == Quot(SumOf(timestamps), Len(timestamps))
    IN  IF data.exploits.kind = "unsized" THEN Quot(5, 10)
        ELSE IF timestamps = <<>> THEN Whole(1)
        ELSE IF AtLeast(Whole(30), avg_age_days) THEN Whole(1)
        ELSE IF AtLeast(Whole(90), avg_age_days) THEN Quot(7, 10)
        ELSE Quot(3, 10)

\* calculate_quality_score: the weighted sum times 100, with the three
\* component scores as the reasoning.
calculate_quality_score(similarity, data_received, expected_criteria, expected_count) ==
    LET semantic_score == calculate_semantic_similarity(similarity)
        completeness   == calculate_completeness(data_received,
                                                 expected_criteria,
                                                 expected_count)
        freshness_score == calculate_freshness(data_received)
        quality_score ==
            Times(Plus(Plus(Times(semantic_score, Quot(4, 10)),
                            Times(completeness.value, Quot(4, 10))),
                       Times(freshness_score, Quot(2, 10))),
                  Whole(100))
    IN  IF completeness.raised # None THEN Raised(completeness.raised)
        ELSE Returned([quality_score |-> quality_score,
                       reasoning     |-> <<semantic_score, completeness.value,
                                           freshness_score>>])

\* The handler of POST /verify-quality: any exception leaves it as
\* HTTPException(500) with the exception's text as detail.
verify_quality(request) ==
    LET scored == calculate_quality_score(request.similarity,
                                          request.data_received,
                                          request.expected_criteria,
                                          request.expected_record_count)
        quality_score == scored.value.quality_score
        refund == determine_refund(quality_score)
    IN  IF scored.raised # None
        THEN Result("POST /verify-quality", <<request>>, None,
                    "500: TypeError")
        ELSE Result("POST /verify-quality", <<request>>,
                    [quality_score     |-> quality_score,
                     recommendation    |-> refund[1],
                     refund_percentage |-> refund[2],
                     reasoning         |-> scored.value.reasoning,
                     signature         |-> sign_result(request.transaction_id,
                                                       int(quality_score))],
                    None)

VerificationRequests ==
    [transaction_id        : {<<"t">>, <<"7">>},
     similarity            : Similarities,
     data_received         : [text : TextInputs, exploits : ExploitsInputs],
     expected_criteria     : CriteriaInputs,
     expected_record_count : ExpectedCountInputs]

\* The state after the verifier module is loaded, with one request made.
InitVerify ==
    /\ oracles = [pk \in {} |-> None]
    /\ order = <<>>
    /\ ledger = [pk \in {} |-> None]
    /\ ret = Result("init", <<>>, None, None)
    /\ pc = NoTasks
    /\ target = NoTasks
    /\ loaded = NoTasks
    /\ running = None
    /\ base = None
    /\ remembered = NoCall
    /\ signing_key \in SigningKeys
    /\ \E request \in VerificationRequests :
            pending = Call("POST /verify-quality", <<request>>)

VerifyQuality ==
    /\ pending.op = "POST /verify-quality"
    /\ ret' = verify_quality(pending.args[1])
    /\ pending' = Idle
    /\ UNCHANGED <<oracles, order, ledger, pc, target, loaded, running, base,
                   remembered, signing_key>>

NextVerify == VerifyQuality

SpecVerify == InitVerify /\ [][NextVerify]_vars

\* ---------------------------------------------------------- fee split
\* calculate_fee_split on its own: escrow amounts on both sides of the
\* two clamps of the base fee, in the registry's units, and up to
\* MaxOracleCount oracles.
MaxOracleCount == 5

EscrowInputs ==
    {0, 10, UnitsPerSol \div 10, (3 * UnitsPerSol) \div 20, UnitsPerSol \div 2,
     UnitsPerSol, (3 * UnitsPerSol) \div 2, 5 * UnitsPerSol, 10 * UnitsPerSol,
     11 * UnitsPerSol, 100 * UnitsPerSol, 1000 * UnitsPerSol}

InitFees ==
    /\ oracles = [pk \in {} |-> None]
    /\ order = <<>>
    /\ ledger = [pk \in {} |-> None]
    /\ ret = Result("init", <<>>, None, None)
    /\ pc = NoTasks
    /\ target = NoTasks
    /\ loaded = NoTasks
    /\ running = None
    /\ base = None
    /\ remembered = NoCall
    /\ signing_key = None
    /\ \E escrow_amount \in EscrowInputs, oracle_count \in 1..MaxOracleCount :
            pending = Call("calculate_fee_split",
                           <<escrow_amount, oracle_count>>)

FeeSplit ==
    /\ pending.op = "calculate_fee_split"
    /\ ret' = Result("calculate_fee_split", pending.args,
                     calculate_fee_split(pending.args[1], pending.args[2]),
                     None)
    /\ pending' = Idle
    /\ UNCHANGED <<oracles, order, ledger, pc, target, loaded, running, base,
                   remembered, signing_key>>

NextFees == FeeSplit

SpecFees == InitFees /\ [][NextFees]_vars

\* ------------------------------------------- handle_full_oracle_failure
\* MultiOracleSystem.handle_full_oracle_failure(failed_oracles,
\* transaction_value) is called by test_multi_oracle.py; its body is not
\* among the sources.  It is modelled from the specification (4.9): with
\* three or more active oracles that are not among the failed ones,
\* strategy new_oracle_set with three of them; with two, strategy
\* reduced_threshold with those two; otherwise, with a registered oracle
\* of reputation >= 900, strategy admin_oracle with that oracle;
\* otherwise delayed_retry after 24 hours with half the transaction value
\* as interim refund.  Which three, and which admin, is left open.  The
\* registry is not changed.
ADMIN_REPUTATION == 900

AvailableOraclesAnyStatus(reg, failed_oracles) ==
    {pk \in DOMAIN reg : pk \notin failed_oracles}

AvailableOracles(reg, failed_oracles) ==
    {pk \in DOMAIN reg : pk \notin failed_oracles /\ reg[pk].status = ACTIVE}

AdminOracles(reg) ==
    {pk \in DOMAIN reg : reg[pk].reputation_score >= ADMIN_REPUTATION}

\* The keys of a set in registration order.
InOrder(keys) == SelectSeq(order, LAMBDA pk : pk \in keys)

Resolution(strategy, keys) == [strategy |-> strategy, oracles |-> InOrder(keys)]

DelayedRetry(transaction_value) ==
    [strategy              |-> "delayed_retry",
     retry_hours           |-> 24,
     interim_refund_pct    |-> 50,
     interim_refund_amount |-> Quot(transaction_value * 50, 100)]

handle_full_oracle_failure(failed_oracles, transaction_value) ==
    LET available == AvailableOracles(oracles, failed_oracles)
        admins    == AdminOracles(oracles)
        Return(resolution) ==
            ret' = Result("handle_full_oracle_failure",
                          <<failed_oracles, transaction_value>>,
                          resolution, None)
    IN  /\ IF Cardinality(available) >= 3
           THEN \E chosen \in SUBSET available :
                    /\ Cardinality(chosen) = 3
                    /\ Return(Resolution("new_oracle_set", chosen))
           ELSE IF Cardinality(available) = 2
           THEN Return(Resolution("reduced_threshold", available))
           ELSE IF admins # {}
           THEN \E admin \in admins :
                    Return(Resolution("admin_oracle", {admin}))
           ELSE Return(DelayedRetry(transaction_value))
        /\ UNCHANGED <<oracles, order, ledger>>

\* Registries the failure tests build: up to four oracles registered in
\* key order with stake 10.0, each one fresh, or raised to admin level
\* (reputation_score = 950, assigned by the test), or suspended by three
\* slash_oracle calls.
FailureKeys == <<"k1", "k2", "k3", "k4">>

FreshOracle(pubkey) == NewOracle(pubkey, 10 * UnitsPerSol)

AdminOracle(pubkey) == [FreshOracle(pubkey) EXCEPT !.reputation_score = 950]

ThriceSlashed(pubkey) ==
    SlashRecord(SlashRecord(SlashRecord(FreshOracle(pubkey)).oracle).oracle)

Standings == {"absent", "fresh", "admin", "suspended"}

RegistryOf(standing) ==
    LET registered == {FailureKeys[i] : i \in {j \in DOMAIN standing :
                                                 standing[j] # "absent"}}
        At(pk) == standing[CHOOSE i \in DOMAIN FailureKeys : FailureKeys[i] = pk]
    IN  [oracles |-> [pk \in registered |->
                        IF At(pk) = "fresh" THEN FreshOracle(pk)
                        ELSE IF At(pk) = "admin" THEN AdminOracle(pk)
                        ELSE ThriceSlashed(pk).oracle],
         order   |-> SelectSeq(FailureKeys, LAMBDA pk : pk \in registered),
         ledger  |-> [pk \in registered |->
                        [staked   |-> 10 * UnitsPerSol,
                         returned |-> IF At(pk) = "suspended"
                                      THEN 10 * UnitsPerSol
                                             - ThriceSlashed(pk).oracle.stake
                                      ELSE 0]]]

FailedInputs ==
    {{}, {"k1"}, {"k1", "k2"}, {"k1", "k2", "k3"},
     {"oracle1", "oracle2", "oracle3"}}

FailureValueInputs == {(3 * UnitsPerSol) \div 2, 2 * UnitsPerSol}

InitFailure ==
    /\ \E standing \in [DOMAIN FailureKeys -> Standings] :
            /\ oracles = RegistryOf(standing).oracles
            /\ order = RegistryOf(standing).order
            /\ ledger = RegistryOf(standing).ledger
    /\ ret = Result("init", <<>>, None, None)
    /\ pc = NoTasks
    /\ target = NoTasks
    /\ loaded = NoTasks
    /\ running = None
    /\ base = None
    /\ remembered = NoCall
    /\ signing_key = None
    /\ \E failed_oracles \in FailedInputs,
          transaction_value \in FailureValueInputs :
            pending = Call("handle_full_oracle_failure",
                           <<failed_oracles, transaction_value>>)

FullFailure ==
    /\ pending.op = "handle_full_oracle_failure"
    /\ handle_full_oracle_failure(pending.args[1], pending.args[2])
    /\ pending' = Idle
    /\ UNCHANGED <<pc, target, loaded, running, base, remembered, signing_key>>

NextFailure == FullFailure

SpecFailure == InitFailure /\ [][NextFailure]_vars

\* ----------------------------------------------------- detect_collusion
\* MultiOracleSystem.detect_collusion(assessments) is called by
\* test_multi_oracle.py; its body is not among the sources.  It is
\* modelled from the specification (4.8): every participant is flagged
\* when all scores are identical or their sample variance is below 2.0;
\* otherwise the oracles of every score that two or more of them share
\* and that lies 10 points or more from each other score are flagged;
\* otherwise nothing is.  It returns (detected, indices), the indices
\* 0-based and ascending.  Lists of fewer than two assessments, for which
\* the sample variance is undefined, are left out.
COLLUSION_VARIANCE == 2

COLLUSION_DIVERGENCE == 10

AllIdentical(scores) == \A i, j \in DOMAIN scores : scores[i] = scores[j]

\* statistics.variance(scores) < bound
VarianceBelow(scores, bound) ==
    LET n == Len(scores)
        t == SumOf(scores)
    IN  n * SumOf(Squares(scores)) - t * t < bound * n * (n - 1)

DivergesStrictly(score, scores) ==
    \A j \in DOMAIN scores :
        scores[j] # score => Abs(scores[j] - score) > COLLUSION_DIVERGENCE

Diverges(score, scores) ==
    \A j \in DOMAIN scores :
        scores[j] # score => Abs(scores[j] - score) >= COLLUSION_DIVERGENCE

\* The positions whose score is shared by another position and diverges
\* from the other scores.
SharedScoreGroups(scores) ==
    {i \in DOMAIN scores :
        /\ \E j \in DOMAIN scores : j # i /\ scores[j] = scores[i]
        /\ Diverges(scores[i], scores)}

\* The 0-based indices of a set of positions, ascending.
Indices(positions, n) ==
    LET flagged == SelectSeq([i \in 1..n |-> i], LAMBDA i : i \in positions)
    IN  [k \in 1..Len(flagged) |-> flagged[k] - 1]

detect_collusion(assessments) ==
    LET scores == ScoresOf(assessments)
        n      == Len(scores)
        groups == SharedScoreGroups(scores)
    IN  IF AllIdentical(scores) \/ VarianceBelow(scores, COLLUSION_VARIANCE)
        THEN <<TRUE, Indices(1..n, n)>>
        ELSE IF groups # {}
        THEN <<TRUE, Indices(groups, n)>>
        ELSE <<FALSE, <<>>>>

CollusionScores == {65, 70, 71, 80, 85, 92}

CollusionLists == UNION {[1..n -> CollusionScores] : n \in 2..MaxAssessments}

InitCollusion ==
    /\ oracles = [pk \in {} |-> None]
    /\ order = <<>>
    /\ ledger = [pk \in {} |-> None]
    /\ ret = Result("init", <<>>, None, None)
    /\ pc = NoTasks
    /\ target = NoTasks
    /\ loaded = NoTasks
    /\ running = None
    /\ base = None
    /\ remembered = NoCall
    /\ signing_key = None
    /\ \E scores \in CollusionLists :
            pending = Call("detect_collusion", <<AssessmentsOf(scores)>>)

Collusion ==
    /\ pending.op = "detect_collusion"
    /\ ret' = Result("detect_collusion", pending.args,
                     detect_collusion(pending.args[1]), None)
    /\ pending' = Idle
    /\ UNCHANGED <<oracles, order, ledger, pc, target, loaded, running, base,
                   remembered, signing_key>>

NextCollusion == Collusion

SpecCollusion == InitCollusion /\ [][NextCollusion]_vars

\* ------------------------------------------- the four refund calculators
\* QualityAssessment._calculate_refund: int((80 - quality_score) / 30 * 100)
\* between 50 and 80, 0% at 80 and 100% at 50.
QualityAssessment_calculate_refund(quality_score) ==
    IF AtLeast(quality_score, Whole(80)) THEN 0
    ELSE IF AtLeast(quality_score, Whole(50))
    THEN int(Times(Times(Plus(Whole(80), Times(Whole(-1), quality_score)),
                         Quot(1, 30)),
                   Whole(100)))
    ELSE 100

\* X402ResolveClient.estimate_refund, with the same percentage and the
\* amount divided by it.
estimate_refund(amount_sol, quality_score) ==
    LET refund_pct ==
            IF quality_score >= 80 THEN 0
            ELSE IF quality_score >= 50
            THEN int(Quot((80 - quality_score) * 100, 30))
            ELSE 100
        refund_sol == Times(Whole(amount_sol), Quot(refund_pct, 100))
    IN  [refund_sol        |-> refund_sol,
         payment_sol       |-> Plus(Whole(amount_sol),
                                    Times(Whole(-1), refund_sol)),
         refund_percentage |-> refund_pct]

\* Whole scores up to MaxScore, each given to the four calculators.
MaxScore == 100

AmountInputs == {UnitsPerSol, (5 * UnitsPerSol) \div 2}

InitRefunds ==
    /\ oracles = [pk \in {} |-> None]
    /\ order = <<>>
    /\ ledger = [pk \in {} |-> None]
    /\ ret = Result("init", <<>>, None, None)
    /\ pc = NoTasks
    /\ target = NoTasks
    /\ loaded = NoTasks
    /\ running = None
    /\ base = None
    /\ remembered = NoCall
    /\ signing_key = None
    /\ \E amount_sol \in AmountInputs, quality_score \in 0..MaxScore :
            pending = Call("refunds", <<amount_sol, quality_score>>)

Refunds ==
    /\ pending.op = "refunds"
    /\ LET amount_sol    == pending.args[1]
           quality_score == pending.args[2]
       IN  ret' = Result("refunds", pending.args,
                    [determine_refund  |-> determine_refund(Whole(quality_score)),
                     consensus         |-> ConsensusRefund(quality_score),
                     _calculate_refund |->
                        QualityAssessment_calculate_refund(Whole(quality_score)),
                     estimate_refund   |-> estimate_refund(amount_sol,
                                                           quality_score)],
                    None)
    /\ pending' = Idle
    /\ UNCHANGED <<oracles, order, ledger, pc, target, loaded, running, base,
                   remembered, signing_key>>

NextRefunds == Refunds

SpecRefunds == InitRefunds /\ [][NextRefunds]_vars

\* ------------------------------------- select_oracles, one turn at a time
\* The while loop of select_oracles with its nonce encoding:
\* nonce.to_bytes(4, 'big') raises OverflowError once the nonce no longer
\* fits, at 256^4 in the code.  NonceLimit stands for that limit, scaled
\* down together with the registry so that a selection can need more
\* nonces than the encoding holds.  The call in flight is kept in pending
\* with its locals: count, seed, active_oracles, selected, nonce.
NonceLimit == 2

SelectFrame(count, seed, active_oracles, selected, nonce) ==
    Call("select_oracles", <<count, seed, active_oracles, selected, nonce>>)

\* The call up to the loop: the active oracles are listed and counted.
SelectBegin ==
    /\ pending = Idle
    /\ \E count \in 0..MaxCount, seed \in Seeds :
         LET active_oracles == ActiveOracles(oracles, order)
         IN  IF Len(active_oracles) < count
             THEN /\ ret' = Result("select_oracles", <<count, seed>>,
                                   None, "ValueError")
                  /\ pending' = Idle
             ELSE /\ ret' = ret
                  /\ pending' = SelectFrame(count, seed, active_oracles,
                                            <<>>, 0)
    /\ UNCHANGED <<oracles, order, ledger, pc, target, loaded, running, base,
                   remembered, signing_key>>

\* One test of the loop condition and, when it holds, one turn of the
\* loop body.
SelectTurn ==
    /\ pending.op = "select_oracles"
    /\ LET count          == pending.args[1]
           seed           == pending.args[2]
           active_oracles == pending.args[3]
           selected       == pending.args[4]
           nonce          == pending.args[5]
           index     == IndexOf(DigestPrefix(seed)[nonce + 1],
                                Len(active_oracles))
           oracle_pk == active_oracles[index + 1]
       IN  IF Len(selected) >= count
           THEN /\ ret' = Result("select_oracles", <<count, seed>>,
                                 selected, None)
                /\ pending' = Idle
           ELSE IF nonce >= NonceLimit
           THEN /\ ret' = Result("select_oracles", <<count, seed>>,
                                 None, "OverflowError")
                /\ pending' = Idle
           ELSE /\ ret' = ret
                /\ pending' = SelectFrame(count, seed, active_oracles,
                                  IF InSeq(oracle_pk, selected)
                                  THEN selected
                                  ELSE Append(selected, oracle_pk),
                                  nonce + 1)
    /\ UNCHANGED <<oracles, order, ledger, pc, target, loaded, running, base,
                   remembered, signing_key>>

\* The method runs to its end before the registry is used again.
RegisterBetweenCalls == pending = Idle /\ RegisterMinStake

NextTurns == RegisterBetweenCalls \/ SelectBegin \/ SelectTurn

SpecTurns == Init /\ [][NextTurns]_vars

\* ------------------------------------------------------------------ claims
Registered == DOMAIN oracles

\* A call of slash_oracle on the registered oracle pk took place in this step.
SlashedIn(pk) ==
    /\ pk \in Registered
    /\ pk \in DOMAIN oracles'
    /\ oracles'[pk].slashed_count = oracles[pk].slashed_count + 1

C1_PenaltyTable ==
    \A pk \in Keys : SlashedIn(pk) =>
        LET o == oracles[pk]
            n == oracles'[pk]
            k == n.slashed_count
            amount == ret'.value[1]
            banned == ret'.value[2]
        IN  /\ ret'.op = "slash_oracle" /\ ret'.args = <<pk>> /\ ret'.raised = None
            /\ amount = o.stake - n.stake
            /\ k = 1 => /\ n.reputation_score = o.reputation_score - 100
                        /\ n.stake = o.stake /\ n.status = o.status
                        /\ amount = 0 /\ banned = FALSE
            /\ k = 2 => /\ n.reputation_score = o.reputation_score - 200
                        /\ 10 * amount = o.stake /\ n.status = o.status
                        /\ banned = FALSE
            /\ k = 3 => /\ n.reputation_score = o.reputation_score
                        /\ 2 * amount = o.stake /\ n.status = SUSPENDED
                        /\ banned = FALSE
            /\ k >= 4 => /\ n.reputation_score = o.reputation_score
                         /\ amount = o.stake /\ n.stake = 0
                         /\ n.status = BANNED /\ banned = TRUE

C1_Sequence ==
    \A pk \in Registered :
        LET o == oracles[pk]
            S == ledger[pk].staked
            k == o.slashed_count
        IN  /\ k \in {0, 1} => o.stake = S /\ o.status = ACTIVE
            /\ k = 2 => 10 * o.stake = 9 * S /\ o.status = ACTIVE
            /\ k = 3 => 100 * o.stake = 45 * S /\ o.status = SUSPENDED
            /\ k >= 4 => /\ o.stake = 0 /\ o.status = BANNED
                         /\ ledger[pk].returned = S

\* C1: every slash_oracle call on a registered oracle applies the penalty of
\* the post-increment slashed_count k and returns (amount removed, banned):
\* k=1 reputation -100, stake kept, (0, false); k=2 reputation -200, 10% of
\* the stake; k=3 50% of the stake, Suspended; k>=4 all the stake, Banned,
\* banned true.  An oracle registered with stake S so passes through
\* (S, Active), (S, Active), (0.9S, Active), (0.45S, Suspended), (0, Banned)
\* and the returned amounts sum to S.
C1_ProgressiveSlashing == [][C1_PenaltyTable]_vars /\ []C1_Sequence

\* A fourth slash has been applied and returned (remaining stake, true).
C1_Witness ==
    /\ ret.op = "slash_oracle"
    /\ ret.args[1] \in Registered
    /\ oracles[ret.args[1]].slashed_count = 4
    /\ ret.value[2] = TRUE
    /\ 100 * ret.value[1] = 45 * ledger[ret.args[1]].staked

\* C2: after any sequence of register_oracle and slash_oracle calls every
\* registered oracle's stake is >= 0, and no step increases the stake of an
\* oracle (nor removes its record).
C2_StakeNonNegativeMonotone ==
    /\ [](\A pk \in Registered : oracles[pk].stake >= 0)
    /\ [][\A pk \in Registered :
            /\ pk \in DOMAIN oracles'
            /\ oracles'[pk].stake <= oracles[pk].stake]_vars

\* An oracle's stake went down by a slash and is still positive.
C2_Witness ==
    \E pk \in Registered :
        /\ oracles[pk].stake > 0
        /\ oracles[pk].stake < ledger[pk].staked

StatusMoves ==
    {<<ACTIVE, SUSPENDED>>, <<ACTIVE, BANNED>>, <<SUSPENDED, BANNED>>}

\* C3: an oracle's status changes only along Active -> Suspended,
\* Active -> Banned or Suspended -> Banned; a Banned oracle stays Banned
\* under every slash_oracle and register_oracle call, re-registration of its
\* key included.
C3_StatusTransitions ==
    [][\A pk \in Registered :
          /\ pk \in DOMAIN oracles'
          /\ \/ oracles'[pk].status = oracles[pk].status
             \/ <<oracles[pk].status, oracles'[pk].status>> \in StatusMoves]_vars

\* A banned oracle's key was offered for registration again, with enough stake.
C3_Witness ==
    /\ ret.op = "register_oracle"
    /\ ret.args[1] \in Registered
    /\ ret.args[2] >= MIN_STAKE
    /\ oracles[ret.args[1]].status = BANNED

\* C4: for every registered oracle, stake = 0 exactly when a fourth or later
\* slash has been applied (slashed_count >= 4, status Banned); with fewer
\* than four slashes the stake is strictly positive.
C4_ZeroStakeIffFourthSlash ==
    \A pk \in Registered :
        /\ oracles[pk].stake = 0 <=> oracles[pk].slashed_count >= 4
        /\ oracles[pk].slashed_count >= 4 => oracles[pk].status = BANNED
        /\ oracles[pk].slashed_count < 4 => oracles[pk].stake > 0

\* One oracle was slashed five times, another three times.
C4_Witness ==
    \E pk, qk \in Registered :
        /\ oracles[pk].slashed_count = 5 /\ oracles[pk].stake = 0
        /\ oracles[qk].slashed_count = 3 /\ oracles[qk].stake > 0

\* The step is a call of register_oracle.
RegisterCall == ret' # ret /\ ret'.op = "register_oracle"

\* C5: register_oracle(pubkey, stake) succeeds exactly when stake >= 10 SOL
\* and pubkey is not registered; on success it adds the record (stake,
\* Active, reputation 500, counters 0); on rejection it returns failure and
\* leaves the registry unchanged.
C5_Registration ==
    [][RegisterCall =>
        LET pubkey == ret'.args[1]
            stake  == ret'.args[2]
            ok     == stake >= 10 * UnitsPerSol /\ pubkey \notin Registered
        IN  /\ ret'.value = ok
            /\ ret'.raised = None
            /\ IF ok
               THEN /\ DOMAIN oracles' = Registered \cup {pubkey}
                    /\ \A pk \in Registered : oracles'[pk] = oracles[pk]
                    /\ oracles'[pubkey].pubkey = pubkey
                    /\ oracles'[pubkey].stake = stake
                    /\ oracles'[pubkey].status = ACTIVE
                    /\ oracles'[pubkey].reputation_score = 500
                    /\ oracles'[pubkey].total_assessments = 0
                    /\ oracles'[pubkey].slashed_count = 0
               ELSE oracles' = oracles /\ order' = order]_vars

\* A second registration of a key, with another sufficient stake, was
\* rejected while the first record was slashed once in between.
C5_Witness ==
    /\ ret.op = "register_oracle"
    /\ ret.value = FALSE
    /\ ret.args[2] >= MIN_STAKE
    /\ ret.args[1] \in Registered
    /\ ledger[ret.args[1]].staked # ret.args[2]
    /\ oracles[ret.args[1]].slashed_count = 1

\* The step is a call of slash_oracle on a key that is not registered.
SlashUnknownCall ==
    /\ ret' # ret
    /\ ret'.op = "slash_oracle"
    /\ ret'.args[1] \notin Registered

\* C7 as stated: slash_oracle on an unregistered key fails with an
\* UnknownOracle error that reaches the caller.
C7_UnknownOracleRaises ==
    (ret.op = "slash_oracle" /\ ret.args[1] \notin Registered)
        => ret.raised = "UnknownOracle"

\* C7 amended: slash_oracle on an unregistered key raises nothing: it returns
\* (0, false) and leaves the registry unchanged (no record created, no
\* counter changed).
C7_UnknownOracleReturnsZero ==
    [][SlashUnknownCall =>
        /\ ret'.raised = None
        /\ ret'.value = <<0, FALSE>>
        /\ oracles' = oracles /\ order' = order /\ ledger' = ledger]_vars

\* slash_oracle was called on an unregistered key while another is registered.
C7_Witness ==
    /\ ret.op = "slash_oracle"
    /\ ret.args[1] \notin Registered
    /\ Registered # {}

\* C9 as stated: the third slash records a suspension expiry on the
\* suspended oracle's record, for the active-oracle query to respect.
C9_SuspensionExpiryRecorded ==
    \A pk \in Registered :
        oracles[pk].status = SUSPENDED
            => "suspension_expiry" \in DOMAIN oracles[pk]

\* C10: select_oracles(count, seed) returns exactly count pairwise distinct
\* keys of registered oracles whose status is Active when count is at most
\* the number of active oracles, and otherwise raises (InsufficientOracles)
\* and returns no selection.
C10_Selection ==
    ret.op = "select_oracles" =>
        LET count  == ret.args[1]
            active == {pk \in Registered : oracles[pk].status = ACTIVE}
            sel    == ret.value
        IN  IF count <= Cardinality(active)
            THEN /\ ret.raised = None
                 /\ Len(sel) = count
                 /\ \A i \in 1..Len(sel) : sel[i] \in active
                 /\ \A i, j \in 1..Len(sel) : sel[i] = sel[j] => i = j
            ELSE ret.raised = "ValueError" /\ ret.value = None

\* Two oracles were selected while a third, slashed three times or more, is
\* registered and not active.
C10_Witness ==
    /\ ret.op = "select_oracles"
    /\ ret.raised = None
    /\ Len(ret.value) = 2
    /\ \E pk \in Registered : oracles[pk].status # ACTIVE

\* C6: under register_oracle, slash_oracle and timeouts every oracle's
\* reputation_score stays within [0, 1000], is 500 at registration, never
\* increases, and a slash takes 100 (first offence) or 200 (second offence)
\* points floored at 0.
C6_ReputationBounded ==
    /\ [](\A pk \in Registered :
            oracles[pk].reputation_score \in 0..1000)
    /\ [][/\ \A pk \in DOMAIN oracles' \ Registered :
                oracles'[pk].reputation_score = 500
          /\ \A pk \in Registered :
                /\ pk \in DOMAIN oracles'
                /\ oracles'[pk].reputation_score <= oracles[pk].reputation_score
                /\ (SlashedIn(pk) /\ oracles'[pk].slashed_count = 1) =>
                      oracles'[pk].reputation_score =
                          IF oracles[pk].reputation_score < 100
                          THEN 0 ELSE oracles[pk].reputation_score - 100
                /\ (SlashedIn(pk) /\ oracles'[pk].slashed_count = 2) =>
                      oracles'[pk].reputation_score =
                          IF oracles[pk].reputation_score < 200
                          THEN 0 ELSE oracles[pk].reputation_score - 200]_vars

\* A first slash left an oracle at reputation 0 after timeouts had brought
\* it below 100 (the floor applied), next to an oracle still at 500.
C6_Witness ==
    /\ ret.op = "slash_oracle"
    /\ ret.args[1] \in Registered
    /\ oracles[ret.args[1]].slashed_count = 1
    /\ oracles[ret.args[1]].reputation_score = 0
    /\ \E pk \in Registered : oracles[pk].reputation_score = 500

AllDone == \A t \in Tasks : pc[t] = "done"

SlashesOn(pk) == Cardinality({t \in Tasks : target[t] = pk})

\* C8: two concurrent slash calls serialize: when both requests are done,
\* every oracle's slashed_count has grown by exactly the number of calls made
\* on it, and its stake, reputation, status and slashed_count are those of
\* the slashes applied one after the other.
C8_ConcurrentSlashesSerialize ==
    AllDone =>
        /\ DOMAIN oracles = DOMAIN base
        /\ \A pk \in DOMAIN base :
              /\ oracles[pk].slashed_count =
                     base[pk].slashed_count + SlashesOn(pk)
              /\ oracles[pk] = SlashTimes(base[pk], SlashesOn(pk))

\* Both requests slashed the same oracle and both are done.
C8_Witness ==
    /\ AllDone
    /\ target["t1"] = target["t2"]
    /\ target["t1"] \in DOMAIN base
    /\ oracles[target["t1"]].slashed_count =
           base[target["t1"]].slashed_count + 2

\* C11: select_oracles is deterministic on a registry: a call made with the
\* same seed and the same count while the same set of oracles is active
\* returns what the remembered call returned, the same oracles in the same
\* order (or the same failure), whatever was registered or slashed between.
SameCallAsRemembered ==
    /\ remembered.made
    /\ ret.op = "select_oracles"
    /\ ret.args = <<remembered.count, remembered.seed>>
    /\ ActiveSet = remembered.active

ConsensusReturned ==
    /\ ret.op = "calculate_consensus"
    /\ ret.raised = None

GivenScores == ScoresOf(ret.args[1])

LowerMiddle == sorted(GivenScores)[(Len(GivenScores) + 1) \div 2]

UpperMiddle == sorted(GivenScores)[Len(GivenScores) \div 2 + 1]

\* C12 as stated: for every list of n >= 3 integer scores the median_score
\* is one of the input scores, the middle element of the sorted scores when
\* n is odd and the lower of the two middle elements when n is even.
C12_MedianIsLowerMiddle ==
    ConsensusReturned =>
        /\ ret.value.median_score = LowerMiddle
        /\ \E i \in 1..Len(GivenScores) : GivenScores[i] = ret.value.median_score

\* C12, amended: for n odd the median_score is the middle element of the
\* sorted scores, an input score; for n even it is the mean of the two
\* middle elements truncated toward zero, which lies between the two and
\* need not be an input score.
C12_MedianMiddleOrTruncatedMean ==
    ConsensusReturned =>
        LET n   == Len(GivenScores)
            two == LowerMiddle + UpperMiddle
        IN  /\ n >= MIN_ORACLES
            /\ n % 2 = 1 => ret.value.median_score = LowerMiddle
            /\ n % 2 = 0 =>
                /\ ret.value.median_score
                     = IF two >= 0 THEN two \div 2 ELSE -((-two) \div 2)
                /\ LowerMiddle <= ret.value.median_score
                /\ ret.value.median_score <= UpperMiddle

\* Four scores whose median_score none of the oracles reported.
C12_Witness ==
    /\ ConsensusReturned
    /\ Len(GivenScores) = 4
    /\ \A i \in 1..4 : GivenScores[i] # ret.value.median_score

\* C13: the number of outlier indices is strictly smaller than the number
\* of assessments whenever std_dev > 0, and outlier_indices is empty
\* whenever std_dev = 0: a consensus never marks every oracle an outlier.
C13_NotEveryOracleOutlier ==
    ConsensusReturned =>
        /\ Len(ret.value.outlier_indices) < Len(GivenScores)
        /\ ret.value.std_dev.squared.num = 0 => ret.value.outlier_indices = <<>>

\* A consensus over disagreeing scores that marks an oracle.
C13_Witness ==
    /\ ConsensusReturned
    /\ ret.value.std_dev.squared.num > 0
    /\ Len(ret.value.outlier_indices) >= 1

\* C14: for n = 3 with two scores agreeing and the third differing strongly
\* (here by 50 points or more), the third is identified as an outlier while
\* the median_score equals the agreeing score.
C14_ThirdOfThreeIsOutlier ==
    (/\ ConsensusReturned
     /\ Len(GivenScores) = 3
     /\ GivenScores[1] = GivenScores[2]
     /\ Abs(GivenScores[3] - GivenScores[1]) >= 50)
        => /\ ret.value.outlier_indices = <<2>>
           /\ ret.value.median_score = GivenScores[1]

\* C15: outlier_indices is exactly the list of positions i, in increasing
\* order, whose score lies more than 1.5 sample standard deviations from
\* the arithmetic mean: with n scores of sum t, position i is listed iff
\* (n * score_i - t)^2 * 4 * (n - 1) > 9 * n * (n * sum of squares - t^2).
\* For the scores 70, 72, 70, 71, 5 the median_score is 70, the mean is
\* 57.6 (288 / 5), outlier_indices is [4] and the confidence is 40.
FarFromMean(i) ==
    LET n == Len(GivenScores)
        t == SumOf(GivenScores)
    IN  (n * GivenScores[i + 1] - t) * (n * GivenScores[i + 1] - t)
              * 4 * (n - 1)
            > 9 * n * (n * SumOf(Squares(GivenScores)) - t * t)

C16_ConfidenceTable ==
    ret.op = "calculate_confidence" =>
        \A q \in 0..MaxQuarterPoints :
            ret.args[1] = QuarterPoints(q) =>
                /\ ret.value \in {40, 60, 75, 90, 100}
                /\ q < 20 => ret.value = 100
                /\ (20 <= q /\ q < 40) => ret.value = 90
                /\ (40 <= q /\ q < 60) => ret.value = 75
                /\ (60 <= q /\ q < 80) => ret.value = 60
                /\ q >= 80 => ret.value = 40
                /\ \A r \in q..MaxQuarterPoints :
                      calculate_confidence(QuarterPoints(r)) <= ret.value

\* The confidence of a std_dev of exactly 5.0 has been calculated.
C16_Witness ==
    /\ ret.op = "calculate_confidence"
    /\ ret.args[1] = QuarterPoints(20)
    /\ ret.value = 90

\* C17: a consensus calculation with fewer than MIN_ORACLES (3) assessments
\* fails with the too-few-assessments error (ValueError in the code) and
\* produces no result; when this happens inside a consensus request, the
\* request fails, no oracle is slashed and the registry is left unchanged.
ServedTooFew ==
    /\ pending.op = "POST /consensus"
    /\ pending'.op = "idle"
    /\ pending.args[1] >= THRESHOLD_MANDATORY_MULTI
    /\ Len(pending.args[2]) < MIN_ORACLES

C17_TooFewAssessmentsFail ==
    [][ServedTooFew =>
            /\ ret'.op = "POST /consensus"
            /\ ret'.raised = "500: ValueError"
            /\ ret'.value = None
            /\ oracles' = oracles
            /\ order' = order
            /\ ledger' = ledger]_vars

\* A request with two assessments has failed on a registry holding an
\* oracle that an earlier request had slashed.
C17_Witness ==
    /\ ret.op = "POST /consensus"
    /\ Len(ret.args[2]) = 2
    /\ ret.raised = "500: ValueError"
    /\ \E pk \in DOMAIN oracles : oracles[pk].slashed_count > 0

\* A call of determine_refund that returned.
RefundReturned == ret.op = "determine_refund"

GivenQuality == ret.args[1]

\* The refund of every score of the range that is no smaller than the
\* given one is no larger than the refund returned.
RefundMonotone ==
    \A other \in QualityInputs :
        AtLeast(other, GivenQuality) =>
            AtLeast(ret.value[2], determine_refund(other)[2])

\* C18 as stated: q >= 80 gives release and 0; 50 <= q < 80 gives
\* partial_refund and the integer percentage round((80 - q) / 80 * 100)
\* (q = 65 gives 19); q < 50 gives full_refund and 100; the refund is
\* monotone non-increasing in q.
C18_RefundRounded ==
    RefundReturned =>
        LET q      == GivenQuality
            refund == ret.value[2]
            exact  == Quot((80 * q.den - q.num) * 100, 80 * q.den)
        IN  /\ AtLeast(q, Whole(80)) => ret.value = <<"release", Whole(0)>>
            /\ (AtLeast(q, Whole(50)) /\ ~AtLeast(q, Whole(80))) =>
                  /\ ret.value[1] = "partial_refund"
                  /\ refund.den = 1
                  /\ 2 * Abs(refund.num * exact.den - exact.num) <= exact.den
                  /\ q = Whole(65) => refund = Whole(19)
            /\ ~AtLeast(q, Whole(50)) =>
                  ret.value = <<"full_refund", Whole(100)>>
            /\ RefundMonotone

\* C18, amended: q >= 80 gives release and 0; 50 <= q < 80 gives
\* partial_refund and the percentage (80 - q) / 80 * 100 itself, not
\* rounded (q = 65 gives 18.75, q = 50 gives 37.5); q < 50 gives
\* full_refund and 100; the refund is monotone non-increasing in q.
C18_RefundCurve ==
    RefundReturned =>
        LET q      == GivenQuality
            refund == ret.value[2]
        IN  /\ AtLeast(q, Whole(80)) => ret.value = <<"release", Whole(0)>>
            /\ (AtLeast(q, Whole(50)) /\ ~AtLeast(q, Whole(80))) =>
                  /\ ret.value[1] = "partial_refund"
                  /\ refund.num * 80 * q.den
                        = (80 * q.den - q.num) * 100 * refund.den
                  /\ q = Whole(65) => refund = Frac(75, 4)
                  /\ q = Whole(50) => refund = Frac(75, 2)
            /\ ~AtLeast(q, Whole(50)) =>
                  ret.value = <<"full_refund", Whole(100)>>
            /\ RefundMonotone

\* The refund of a score of 65 has been determined: 18.75 per cent.
C18_Witness ==
    /\ RefundReturned
    /\ GivenQuality = Whole(65)
    /\ ret.value = <<"partial_refund", Frac(75, 4)>>

\* Two calls of sign_result have returned.
SignedTwice ==
    /\ remembered.made
    /\ ret.op = "sign_result"

\* The number a string of decimal digits denotes.
RECURSIVE ParseDigits(_)
ParseDigits(text) ==
    IF text = <<>> THEN 0
    ELSE 10 * ParseDigits(SubSeq(text, 1, Len(text) - 1))
            + (CHOOSE d \in 0..9 : DigitChars[d + 1] = text[Len(text)])

\* The position of the last ":" of a message.
LastColon(message) ==
    CHOOSE k \in 1..Len(message) :
        /\ message[k] = ":"
        /\ \A j \in (k + 1)..Len(message) : message[j] # ":"

\* C19: the signature is over the canonical message
\* "{transaction_id}:{integer_score}", from which both are read back by
\* splitting at the last ":"; signing is deterministic for the fixed key;
\* verification succeeds for the signed pair; and two different
\* (transaction_id, integer score) pairs never share a canonical message,
\* so the signature of one does not verify for the other.
C19_CanonicalMessageSigned ==
    SignedTwice =>
        LET message == FromHex(ret.value).signed
            earlier == FromHex(remembered.value).signed
            k       == LastColon(message)
        IN  /\ \E j \in 1..Len(message) : message[j] = ":"
            /\ SubSeq(message, 1, k - 1) = ret.args[1]
            /\ ParseDigits(SubSeq(message, k + 1, Len(message))) = ret.args[2]
            /\ Ed25519Verify(signing_key, message, FromHex(ret.value))
            /\ ret.args = remembered.args => ret.value = remembered.value
            /\ ret.args # remembered.args =>
                  /\ message # earlier
                  /\ ret.value # remembered.value
                  /\ ~Ed25519Verify(signing_key, earlier, FromHex(ret.value))

\* "t7" with score 5 and "t" with score 75 have both been signed.
C19_Witness ==
    /\ SignedTwice
    /\ remembered.args = <<<<"t", "7">>, 5>>
    /\ ret.args = <<<<"t">>, 75>>
    /\ ret.value # remembered.value

\* A well-formed request on which scoring raises: a record count is
\* expected and the payload's 'exploits' is no list (None, a number), so
\* that len() fails inside calculate_completeness.
ScoringRaisedOn(request) ==
    /\ request.expected_record_count.given
    /\ request.expected_record_count.count # 0
    /\ request.data_received.exploits.kind = "unsized"

VerifyReturned == ret.op = "POST /verify-quality"

InUnit(x) == AtLeast(x, Whole(0)) /\ AtLeast(Whole(1), x)

\* C21 as stated: for all inputs to the quality assessor, negative cosine
\* similarity, future timestamps and zero or negative expected record
\* counts included, the quality_score of a verdict lies in [0, 100] and
\* each component score (semantic, completeness, freshness) lies in
\* [0, 1].
C21_ScoresInRange ==
    (VerifyReturned /\ ret.raised = None) =>
        /\ AtLeast(ret.value.quality_score, Whole(0))
        /\ AtLeast(Whole(100), ret.value.quality_score)
        /\ \A i \in 1..Len(ret.value.reasoning) :
                InUnit(ret.value.reasoning[i])

FeesReturned == ret.op = "calculate_fee_split"

\* max(0.0001, min(0.01, 0.001 * escrow)), the escrow in registry units.
ExpectedBaseFee(escrow_amount) ==
    LET raw == Quot(escrow_amount, 1000 * UnitsPerSol)
    IN  IF ~AtLeast(raw, Quot(1, 10000)) THEN Quot(1, 10000)
        ELSE IF ~AtLeast(Quot(1, 100), raw) THEN Quot(1, 100)
        ELSE raw

Lowest(x) == Quot(x.num, x.den)

\* primary + (n - 1) * secondary, over the secondary's denominator.
FeeTotal(fees, oracle_count) ==
    Quot(fees.primary.num * (fees.secondary.den \div fees.primary.den)
            + (oracle_count - 1) * fees.secondary.num,
         fees.secondary.den)

TimedOut(pubkey) ==
    /\ ret'.op = "handle_oracle_timeout"
    /\ ret'.args = <<pubkey>>

\* What a timeout leaves of the timed-out oracle's record and what it
\* returns: stake, slashed_count and status are unchanged, and the backup
\* is a registered, active oracle other than the timed-out one when there
\* is one, None when there is none or no other oracle is registered.
TimeoutFrameAndBackup(pubkey) ==
    /\ oracles'[pubkey].stake = oracles[pubkey].stake
    /\ oracles'[pubkey].slashed_count = oracles[pubkey].slashed_count
    /\ oracles'[pubkey].status = oracles[pubkey].status
    /\ IF \E pk \in DOMAIN oracles : pk # pubkey /\ oracles[pk].status = ACTIVE
       THEN /\ ret'.value \in DOMAIN oracles
            /\ ret'.value # pubkey
            /\ oracles[ret'.value].status = ACTIVE
       ELSE ret'.value = None
    /\ (DOMAIN oracles = {pubkey}) => ret'.value = None

\* C23 as stated: handling an oracle timeout deducts exactly 50
\* reputation points from the timed-out oracle, leaves its stake,
\* slashed_count and status unchanged, and returns a backup oracle that is
\* registered, active and different from the timed-out oracle when such an
\* oracle exists, and None when the timed-out oracle is the only
\* registered oracle.
C23_TimeoutDeductsFifty ==
    [][\A pubkey \in Keys :
          TimedOut(pubkey) =>
              /\ oracles'[pubkey].reputation_score
                    = oracles[pubkey].reputation_score - 50
              /\ TimeoutFrameAndBackup(pubkey)]_vars

\* C23, amended: handling an oracle timeout deducts 50 reputation points
\* from the timed-out oracle, floored at 0 (an oracle with fewer than 50
\* points is left with 0), leaves its stake, slashed_count and status
\* unchanged, and returns a backup oracle that is registered, active and
\* different from the timed-out oracle when such an oracle exists, and
\* None when the timed-out oracle is the only registered oracle.
C23_TimeoutDeductsFiftyFloored ==
    [][\A pubkey \in Keys :
          TimedOut(pubkey) =>
              /\ oracles'[pubkey].reputation_score
                    = Max(0, oracles[pubkey].reputation_score - 50)
              /\ TimeoutFrameAndBackup(pubkey)]_vars

\* A timeout has been handled with a backup returned, the timed-out
\* oracle having lost reputation down to the floor.
C23_Witness ==
    /\ ret.op = "handle_oracle_timeout"
    /\ ret.value # None
    /\ oracles[ret.args[1]].reputation_score = 0
    /\ oracles[ret.args[1]].slashed_count = 0

FailureHandled == ret.op = "handle_full_oracle_failure"

\* The registered, active oracles that are not among the failed ones.
NonFailedActive(failed_oracles) ==
    {pk \in DOMAIN oracles :
        pk \notin failed_oracles /\ oracles[pk].status = ACTIVE}

Distinct(seq) == \A i, j \in DOMAIN seq : seq[i] = seq[j] => i = j

\* C24: when all selected oracles fail, the fallback picks the first
\* applicable strategy in a fixed order: new_oracle_set with exactly 3
\* oracles, none of them failed, when at least 3 non-failed active
\* oracles exist; otherwise reduced_threshold with the 2 available ones
\* when exactly 2 exist; otherwise admin_oracle with the single
\* registered oracle of reputation >= 900; otherwise delayed_retry with
\* retry_hours = 24, interim_refund_pct = 50 and an interim refund of
\* half the transaction value.
C24_FallbackStrategyOrder ==
    FailureHandled =>
        LET failed_oracles == ret.args[1]
            transaction_value == ret.args[2]
            resolution == ret.value
            available == NonFailedActive(failed_oracles)
        IN  IF Cardinality(available) >= 3
            THEN /\ resolution.strategy = "new_oracle_set"
                 /\ Len(resolution.oracles) = 3
                 /\ Distinct(resolution.oracles)
                 /\ \A i \in 1..3 : resolution.oracles[i] \in available
            ELSE IF Cardinality(available) = 2
            THEN /\ resolution.strategy = "reduced_threshold"
                 /\ Len(resolution.oracles) = 2
                 /\ {resolution.oracles[i] : i \in 1..2} = available
            ELSE IF \E pk \in DOMAIN oracles :
                        oracles[pk].reputation_score >= 900
            THEN /\ resolution.strategy = "admin_oracle"
                 /\ Len(resolution.oracles) = 1
                 /\ resolution.oracles[1] \in DOMAIN oracles
                 /\ oracles[resolution.oracles[1]].reputation_score >= 900
            ELSE /\ resolution.strategy = "delayed_retry"
                 /\ resolution.retry_hours = 24
                 /\ resolution.interim_refund_pct = 50
                 /\ Times(resolution.interim_refund_amount, Whole(2))
                        = Whole(transaction_value)

\* The only registered oracle is at admin level and the failed ones are
\* not registered: the admin is returned.
C24_Witness ==
    /\ FailureHandled
    /\ ret.args[1] = {"oracle1", "oracle2", "oracle3"}
    /\ DOMAIN oracles = {"k2"}
    /\ ret.value.strategy = "admin_oracle"
    /\ ret.value.oracles = <<"k2">>

CollusionChecked == ret.op = "detect_collusion"

CheckedScores == ScoresOf(ret.args[1])

\* The 0-based indices the call returned, as a set.
Flagged == {ret.value[2][k] : k \in 1..Len(ret.value[2])}

\* 0-based indices of the oracles whose score another oracle shares while
\* every different score is at least 10 points away.
SharingGroup ==
    {i - 1 : i \in {p \in DOMAIN CheckedScores :
        /\ \E q \in DOMAIN CheckedScores :
                q # p /\ CheckedScores[q] = CheckedScores[p]
        /\ \A q \in DOMAIN CheckedScores :
                \/ CheckedScores[q] = CheckedScores[p]
                \/ CheckedScores[q] - CheckedScores[p] >= 10
                \/ CheckedScores[p] - CheckedScores[q] >= 10}}

\* The sample variance, (n * sum(x^2) - sum(x)^2) / (n * (n - 1)), is
\* below 2.
LowVariance ==
    LET n == Len(CheckedScores)
        t == SumOf(CheckedScores)
    IN  n * SumOf(Squares(CheckedScores)) - t * t < 2 * n * (n - 1)

\* C25: collusion detection flags every participant when all scores are
\* identical or their sample variance is below 2.0, flags exactly the
\* group of two or more oracles that share an identical score differing
\* from the other scores by at least 10 points, and reports no collusion
\* with an empty index list when none of these rules applies.
C25_CollusionRules ==
    CollusionChecked =>
        IF \/ \A i \in DOMAIN CheckedScores : CheckedScores[i] = CheckedScores[1]
           \/ LowVariance
        THEN /\ ret.value[1] = TRUE
             /\ Flagged = 0..(Len(CheckedScores) - 1)
        ELSE IF SharingGroup # {}
        THEN /\ ret.value[1] = TRUE
             /\ Flagged = SharingGroup
             /\ Len(ret.value[2]) = Cardinality(SharingGroup)
        ELSE /\ ret.value[1] = FALSE
             /\ ret.value[2] = <<>>

\* Two oracles gave 80 and a third one 70, exactly 10 points away: the
\* pair is flagged and the third is not.
C25_Witness ==
    /\ CollusionChecked
    /\ CheckedScores = <<80, 80, 70>>
    /\ ret.value = <<TRUE, <<0, 1>>>>

\* C26 as stated: with no expected record count, calculate_completeness
\* returns exactly the fraction of expected criteria occurring in the
\* payload: 1.0 when all match, strictly between 0.3 and 0.4 when one of
\* three matches, below 0.5 when none matches.
C26_CompletenessIsCriteriaFraction ==
    (/\ VerifyReturned
     /\ ret.raised = None
     /\ ~ret.args[1].expected_record_count.given
     /\ ret.args[1].expected_criteria # <<>>) =>
        LET request      == ret.args[1]
            expected     == request.expected_criteria
            matched      == {i \in 1..Len(expected) :
                                Lower(expected[i])
                                    \in request.data_received.text}
            completeness == ret.value.reasoning[2]
        IN  /\ completeness = Quot(Cardinality(matched), Len(expected))
            /\ (Cardinality(matched) = 1 /\ Len(expected) = 3) =>
                    /\ ~AtLeast(Quot(3, 10), completeness)
                    /\ ~AtLeast(completeness, Quot(4, 10))
            /\ matched = {} => ~AtLeast(completeness, Quot(5, 10))

\* Python's round() of a fraction that is not negative: to the nearest
\* whole number, a half to the even one.
Round(x) ==
    LET floor == x.num \div x.den
        twice == 2 * (x.num % x.den)
    IN  IF twice < x.den THEN floor
        ELSE IF twice > x.den THEN floor + 1
        ELSE IF floor % 2 = 0 THEN floor ELSE floor + 1

\* 0 for q >= 80, round((80 - q) / 80 * 100) for 50 <= q < 80, 100 below.
OneCurve(q) ==
    IF q >= 80 THEN 0
    ELSE IF q >= 50 THEN Round(Quot((80 - q) * 100, 80))
    ELSE 100

\* C27 as stated: for every whole quality score q in 0..100 all refund
\* calculators agree on the one curve, 0 for q >= 80,
\* round((80 - q) / 80 * 100) for 50 <= q < 80 and 100 for q < 50:
\* VerifierOracle.determine_refund, the refund the /consensus handler
\* derives from the median, QualityAssessment._calculate_refund and
\* X402ResolveClient.estimate_refund.
C27_RefundCalculatorsAgree ==
    (ret.op = "refunds" /\ ret.args[2] <= 100) =>
        LET q == ret.args[2]
        IN  /\ ret.value.determine_refund[2] = Whole(OneCurve(q))
            /\ Lowest(ret.value.consensus) = Whole(OneCurve(q))
            /\ ret.value._calculate_refund = OneCurve(q)
            /\ ret.value.estimate_refund.refund_percentage = OneCurve(q)

Floor(x) == x.num \div x.den

\* C29 as stated: in every verdict of verify_quality the score bound by
\* the signature is floor(quality_score) of the same response, and the
\* recommendation returned equals the one the refund curve assigns to
\* that signed whole score.
C29_SignedScoreIsFloor ==
    (VerifyReturned /\ ret.raised = None) =>
        LET signed_score == Floor(ret.value.quality_score)
        IN  /\ Ed25519Verify(signing_key,
                             CanonicalMessage(ret.args[1].transaction_id,
                                              signed_score),
                             FromHex(ret.value.signature))
            /\ ret.value.recommendation
                    = determine_refund(Whole(signed_score))[1]

\* The step answers a /consensus request with a response.
ServedConsensus ==
    /\ pending.op = "POST /consensus"
    /\ pending'.op = "idle"
    /\ ret'.op = "POST /consensus"
    /\ ret'.raised = None

\* How many outlier indices of the request in service belong to
\* assessments submitted by pubkey.
OutlierAssessmentsOf(pubkey) ==
    LET assessments == pending.args[2]
        outliers    == calculate_consensus(assessments).value.outlier_indices
    IN  Cardinality({k \in 1..Len(outliers) :
                        assessments[outliers[k] + 1].oracle_pubkey = pubkey})

\* C30: a successful /consensus request changes the registry only by one
\* slash_oracle call per outlier index, applied to the oracle that
\* submitted that assessment; the records of the oracles whose
\* assessments are not outliers and the set of registered keys are
\* unchanged.  calculate_consensus works from the assessments alone: the
\* response carries what it computes from them, whatever the registry
\* holds.
C30_ConsensusSlashesOnlyOutliers ==
    [][ServedConsensus =>
            /\ DOMAIN oracles' = DOMAIN oracles
            /\ order' = order
            /\ \A pk \in DOMAIN oracles :
                    /\ oracles'[pk]
                          = SlashTimes(oracles[pk], OutlierAssessmentsOf(pk))
                    /\ OutlierAssessmentsOf(pk) = 0 =>
                            /\ oracles'[pk] = oracles[pk]
                            /\ ledger'[pk] = ledger[pk]
            /\ ret'.value.median_score
                  = calculate_consensus(pending.args[2]).value.median_score
            /\ ret'.value.outlier_count
                  = Len(calculate_consensus(pending.args[2])
                            .value.outlier_indices)]_vars

\* A request with one outlier among five assessments has been answered:
\* the registered oracle that submitted it has been slashed and another
\* registered oracle has not.
C30_Witness ==
    /\ ret.op = "POST /consensus"
    /\ ret.raised = None
    /\ ret.value.outlier_count = 1
    /\ Len(ret.args[2]) = 5
    /\ \E pk \in DOMAIN oracles : oracles[pk].slashed_count = 1
    /\ \E pk \in DOMAIN oracles : oracles[pk].slashed_count = 0

====
